---------------------------- MODULE Spec2Model ----------------------------
(* Spot Checker browser extension: the local quota counters, the          *)
(* tracked-playlist store and the tasks that share chrome.storage.local.  *)
(*                                                                         *)
(* Every async function is a task that runs one step per await: a step    *)
(* is the synchronous code between two suspension points together with    *)
(* the storage read or write that ends it.  chrome.storage.local is the   *)
(* variable store; a missing key holds the value its readers default to.  *)
(* The store itself is taken to work (Storage.get/set do not hit their    *)
(* catch branches).                                                        *)
EXTENDS Integers, Sequences, FiniteSets, TLC

VARIABLES
    store,          \* chrome.storage.local, one field per key
    tasks,          \* the async calls in flight: tasks[t] is a call frame
    now,            \* the wall clock, Date.now()
    sinceZero,      \* per kind: increment calls begun since the counter was zeroed today
    startedToday,   \* per kind: increment calls begun on the current calendar day
    checksToday,    \* free-tier single checks that were given their playlist today
    calls           \* per playlist id: the track calls made since it was last absent

vars == <<store, tasks, now, sinceZero, startedToday, checksToday, calls>>

-----------------------------------------------------------------------------
(* Bounds of the model *)

DayLen == 2          \* clock ticks per calendar day
QuotaMaxNow == 2     \* last clock value of the quota specifications
SeqMaxIncs == 4      \* increment calls begun per kind and day, sequential use
ConcMaxIncs == 2     \* increment calls begun per kind and day, overlapping use
MaxChecks == 6       \* single checks are started while fewer were answered today
CheckMaxNow == 2     \* last clock value of the single-check specification
HistMaxNow == 1      \* last clock value of the history specification
HistMaxCalls == 32   \* track calls on the playlist whose history is filled
OtherMaxCalls == 1   \* track calls on the other playlist of that specification
CollMaxId == 52      \* playlist identifiers of the collection specification
CollExtra == 1       \* calls of the collection specification that add no new identifier
CollLow == 2         \* such calls are made on a collection this short, or on one nearly full
ConcMaxNow == 2      \* track calls are begun before this clock value, overlapping use
BgMaxNow == 3        \* calls begun in the background specification
TierMaxNow == 3      \* last clock value of the entitlement specification
MaxExpiry == 2       \* latest expiry a subscription is given
SyncMaxNow == 3
CanMaxChecks == 6
CanMaxApi == 101
CanMaxNow == 2
MaxBatchLen == 4
MaxConcurrency == 3
PureMaxNow == 2
RefreshMaxId == 11
RefreshMaxNow == 11
RefreshLow == 1      \* calls begun in the cloud-sync specification

-----------------------------------------------------------------------------
(* Program constants *)

FREE_DAILY_CHECKS == 5     \* popup.js: usage >= 5
HISTORY_CAP == 30          \* storage.js: history.length > 30
TRACKED_CAP == 50          \* storage.js: tracked.length > 50
REFRESH_SLICE == 10        \* service-worker.js: trackedPlaylists.slice(0, 10)
NoDate == -1               \* Storage.get(key) of a key never written: null

\* premium.js LIMITS: dailyChecks of the free tier, bulkLimit and
\* apiDailyLimit of the paid tiers, and the value that stands for Infinity
DAILY_CHECKS == 5
BULK_LIMIT == 50
API_DAILY_LIMIT == 100
Infinity == -2

\* premium.js TIERS
Tiers == {"free", "premium", "pro"}

Kinds == {"interactive", "api"}
PlaylistIds == 1 .. CollMaxId
TaskIds == {1, 2}

\* the frames of the model: those of the callers and, third, the one of the
\* service worker's alarm listener
Workers == TaskIds \cup {3}

\* KEYS of storage.js: the count key and the anchor-day key of each counter
CountKey(kind) == IF kind = "interactive" THEN "dailyUsage" ELSE "apiDailyUsage"
DateKey(kind) == IF kind = "interactive" THEN "usageDate" ELSE "apiUsageDate"

\* new Date().toDateString(): the local calendar day of a clock value; every
\* instant of one day gives the same string, instants of two days differ
toDateString(t) == t \div DayLen


-----------------------------------------------------------------------------
(* The store and the call frames *)

\* the value of userTier when the key is absent
NoTier == ""

\* a settings object, whole or partial: a key the object does not have is "";
\* present tells the object from an absent one
NoSettings == [present |-> FALSE, autoCheck |-> "", showBadge |-> "", theme |-> ""]

\* the settings the install handler writes: { autoCheck: true, showBadge:
\* true }
InstalledSettings ==
    [present |-> TRUE, autoCheck |-> "true", showBadge |-> "true", theme |-> ""]

\* chrome.storage.local with nothing in it (before anything was written or
\* after a clear): every key absent.  The counts, the expiry and lastVerified
\* are only read through their default 0 and the collection through [], so
\* absent is that default; an absent anchor day is null, an absent tier
\* NoTier, an absent email or subscription id ""
ClearedStore ==
    [dailyUsage |-> 0, usageDate |-> NoDate,
     apiDailyUsage |-> 0, apiUsageDate |-> NoDate,
     trackedPlaylists |-> <<>>, settings |-> NoSettings,
     userTier |-> NoTier, userEmail |-> "", subscriptionId |-> "",
     tierExpiry |-> 0, lastVerified |-> 0]

\* the store once the install handler has written userTier 'free', the empty
\* collection and the settings; the states after construction set the anchor
\* day the handler writes
EmptyStore ==
    [ClearedStore EXCEPT !.userTier = "free", !.settings = InstalledSettings]

\* Storage.get(KEYS.TIER, TIERS.FREE): the default stands for an absent key
storedTier(st) == IF st.userTier = NoTier THEN "free" ELSE st.userTier

\* the argument of a call that takes no playlist
NoPlaylist == [id |-> 0, followers |-> 0, timestamp |-> 0]

\* the body of a verification answer or of a payment event when there is none
NoData ==
    [status |-> "", email |-> "", subscriptionId |-> "", active |-> FALSE,
     tier |-> "free", expiresAt |-> 0]

\* the entitlement fields of a store
Entitlement(st) ==
    [tier |-> st.userTier, expiry |-> st.tierExpiry, email |-> st.userEmail,
     subscriptionId |-> st.subscriptionId]

NoEntitlement == [tier |-> "free", expiry |-> 0, email |-> "", subscriptionId |-> ""]

\* the argument of importData when there is none: data.trackedPlaylists
\* absent, data.settings absent
NoImport ==
    [hasTracked |-> FALSE, trackedPlaylists |-> <<>>, settings |-> NoSettings]

\* the playlist and the result of a risk assessment when there is none
NoScored ==
    [followers |-> 0, tracks |-> 0, name |-> "", description |-> 0,
     snapshot_id |-> ""]

NoBotData == [score |-> 0, level |-> "", factors |-> <<>>]

\* a task that is not running
Idle ==
    [op |-> "idle", pc |-> "idle", kind |-> "interactive", stage |-> "",
     today |-> NoDate, usageDate |-> NoDate, current |-> 0, ret |-> 0,
     tier |-> "free", cached |-> "free", expiry |-> 0, outcome |-> "",
     arg |-> NoPlaylist, snap |-> <<>>, updated |-> <<>>,
     userId |-> "", uploads |-> 0,
     email |-> "", sub |-> "", data |-> NoData, setTo |-> "free",
     setExpiry |-> 0, via |-> "", stamp |-> 0, attempts |-> 0,
     before |-> NoEntitlement, began |-> 0,
     action |-> "", allowed |-> FALSE, remaining |-> 0,
     ids |-> <<>>, conc |-> 0, i |-> 0, results |-> <<>>, batch |-> <<>>,
     completed |-> <<>>, fetched |-> <<>>, chunkLog |-> <<>>, pauses |-> 0,
     playlist |-> NoScored, botData |-> NoBotData, fetches |-> 0,
     had |-> <<>>, imported |-> NoImport, answered |-> {},
     settings |-> NoSettings, currentSettings |-> NoSettings]

AllIdle == \A t \in Workers : tasks[t].op = "idle"

Goto(t, f) == tasks' = [tasks EXCEPT ![t] = f]

At(t, pc) == tasks[t].pc = pc

-----------------------------------------------------------------------------
(* Quota Counter: Storage.getDailyUsage / getApiDailyUsage,                *)
(* Storage.incrementDailyUsage / incrementApiDailyUsage                    *)

\* the reset only when no anchor day was ever stored
IsNewDay_firstRunOnly(usageDate, today) == usageDate = NoDate

\* usageDate !== today
IsNewDay(usageDate, today) == usageDate # today

\* a lost increment: the value is written back unchanged
NewValue_same(current) == current

\* const newValue = current + 1
NewValue(current) == current + 1

\* the synchronous head of getDailyUsage: today is computed, the read of the
\* anchor day is issued
getUsage_call(f, kind, stage) ==
    [f EXCEPT !.kind = kind, !.stage = stage,
              !.today = toDateString(now), !.pc = "gu_date"]

\* the synchronous head of Premium.getTier: the read of the tier is issued
getTier_call(f, stage) == [f EXCEPT !.stage = stage, !.pc = "gt_tier"]

Max(a, b) == IF a > b THEN a ELSE b

\* premium.js LIMITS of a tier of TIERS, the fields canPerform reads; an
\* apiDailyLimit that is absent is 0
LIMITS(tier) ==
    CASE tier = "free" ->
            [dailyChecks |-> DAILY_CHECKS, bulkLimit |-> 0, api |-> FALSE,
             apiDailyLimit |-> 0]
      [] tier = "premium" ->
            [dailyChecks |-> Infinity, bulkLimit |-> BULK_LIMIT, api |-> FALSE,
             apiDailyLimit |-> 0]
      [] tier = "pro" ->
            [dailyChecks |-> Infinity, bulkLimit |-> BULK_LIMIT, api |-> TRUE,
             apiDailyLimit |-> API_DAILY_LIMIT]

\* the difference as it is, below zero once the count has passed the limit
remainingOf_signed(limit, usage) == limit - usage

\* Math.max(0, limits.dailyChecks - usage), Math.max(0, limits.apiDailyLimit - apiUsage)
remainingOf(limit, usage) == Max(0, limit - usage)

\* the limit canPerform compares the count of its action with
limitOf(tier, action) ==
    IF action = "api" THEN LIMITS(tier).apiDailyLimit
                      ELSE LIMITS(tier).dailyChecks

\* the code that runs when getDailyUsage returns v to its caller
AfterUsage(f, v) ==
    CASE f.stage = "ret"   -> [f EXCEPT !.ret = v, !.pc = "done"]
      [] f.stage = "can"   ->
            LET remaining == remainingOf(limitOf(f.tier, f.action), v)
            IN [f EXCEPT !.ret = v, !.remaining = remaining,
                         !.allowed = remaining > 0, !.pc = "done"]
      [] f.stage = "inc"   -> [f EXCEPT !.current = v, !.pc = "inc_set"]
      [] f.stage = "limit" ->
            IF v >= FREE_DAILY_CHECKS
            THEN [f EXCEPT !.outcome = "limit", !.pc = "done"]
            ELSE [f EXCEPT !.pc = "gp_token"]
      [] OTHER             -> [f EXCEPT !.outcome = "shown", !.pc = "done"]

\* const usageDate = await this.get(KEYS.USAGE_DATE); if (usageDate !== today)
getUsage_readDate(t) ==
    /\ At(t, "gu_date")
    /\ LET f == tasks[t]
           d == store[DateKey(f.kind)]
       IN Goto(t, [f EXCEPT !.usageDate = d,
                            !.pc = IF IsNewDay(d, f.today) THEN "gu_setDate"
                                                           ELSE "gu_count"])
    /\ UNCHANGED <<store, now, sinceZero, startedToday, checksToday, calls>>

\* await this.set(KEYS.USAGE_DATE, today)
getUsage_setDate(t) ==
    /\ At(t, "gu_setDate")
    /\ store' = [store EXCEPT ![DateKey(tasks[t].kind)] = tasks[t].today]
    /\ Goto(t, [tasks[t] EXCEPT !.pc = "gu_setCount"])
    /\ UNCHANGED <<now, sinceZero, startedToday, checksToday, calls>>

\* await this.set(KEYS.DAILY_USAGE, 0); return 0
getUsage_setCount(t) ==
    /\ At(t, "gu_setCount")
    /\ store' = [store EXCEPT ![CountKey(tasks[t].kind)] = 0]
    /\ Goto(t, AfterUsage(tasks[t], 0))
    /\ UNCHANGED <<now, sinceZero, startedToday, checksToday, calls>>

\* return await this.get(KEYS.DAILY_USAGE, 0)
getUsage_readCount(t) ==
    /\ At(t, "gu_count")
    /\ Goto(t, AfterUsage(tasks[t], store[CountKey(tasks[t].kind)]))
    /\ UNCHANGED <<store, now, sinceZero, startedToday, checksToday, calls>>

\* the code that runs when incrementDailyUsage returns: the caller of the
\* Storage method gets the value, handleSingleCheck goes on to updateUsageUI
AfterIncrement(f, v) ==
    IF f.op = "check" THEN getTier_call([f EXCEPT !.ret = v], "ui")
                      ELSE [f EXCEPT !.ret = v, !.pc = "done"]

\* await this.set(KEYS.DAILY_USAGE, newValue); return newValue
increment_set(t) ==
    /\ At(t, "inc_set")
    /\ LET f == tasks[t]
           newValue == NewValue(f.current)
       IN /\ store' = [store EXCEPT ![CountKey(f.kind)] = newValue]
          /\ Goto(t, AfterIncrement(f, newValue))
    /\ UNCHANGED <<now, sinceZero, startedToday, checksToday, calls>>

\* a caller invokes getDailyUsage (kind interactive) or getApiDailyUsage
getUsage(t, kind) ==
    /\ tasks[t].op = "idle"
    /\ Goto(t, getUsage_call([Idle EXCEPT !.op = "getUsage"], kind, "ret"))
    /\ UNCHANGED <<store, now, sinceZero, startedToday, checksToday, calls>>

\* a caller invokes incrementDailyUsage or incrementApiDailyUsage
increment(t, kind, maxIncs) ==
    /\ tasks[t].op = "idle"
    /\ startedToday[kind] < maxIncs
    /\ Goto(t, getUsage_call([Idle EXCEPT !.op = "increment"], kind, "inc"))
    /\ sinceZero' = [sinceZero EXCEPT ![kind] = @ + 1]
    /\ startedToday' = [startedToday EXCEPT ![kind] = @ + 1]
    /\ UNCHANGED <<store, now, checksToday, calls>>

\* the caller has its result: the frame is dropped
Return(t) ==
    /\ At(t, "done")
    /\ Goto(t, Idle)
    /\ UNCHANGED <<store, now, sinceZero, startedToday, checksToday, calls>>

\* the alarm dailyReset runs service-worker.js handleDailyReset: the object
\* { dailyUsage: 0, usageDate: new Date().toDateString() } is built and its
\* write is issued
handleDailyReset(t) ==
    /\ tasks[t].op = "idle"
    /\ Goto(t, [Idle EXCEPT !.op = "dailyReset", !.today = toDateString(now),
                            !.pc = "dr_set"])
    /\ UNCHANGED <<store, now, sinceZero, startedToday, checksToday, calls>>

\* a reset that zeroes the API counter as well
handleDailyReset_set_both(t) ==
    /\ At(t, "dr_set")
    /\ store' = [store EXCEPT !.dailyUsage = 0, !.usageDate = tasks[t].today,
                              !.apiDailyUsage = 0,
                              !.apiUsageDate = tasks[t].today]
    /\ sinceZero' = [k \in Kinds |-> 0]
    /\ Goto(t, Idle)
    /\ UNCHANGED <<now, startedToday, checksToday, calls>>

\* await browserAPI.storage.local.set({ dailyUsage, usageDate }): both keys
\* are written at once, the day being the one of the call; the listener
\* returns to nobody
handleDailyReset_set(t) ==
    /\ At(t, "dr_set")
    /\ store' = [store EXCEPT !.dailyUsage = 0, !.usageDate = tasks[t].today]
    /\ sinceZero' = [sinceZero EXCEPT !["interactive"] = 0]
    /\ Goto(t, Idle)
    /\ UNCHANGED <<now, startedToday, checksToday, calls>>

\* popup.js handleClearData, once the user has confirmed: the clear of the
\* storage is issued
handleClearData(t) ==
    /\ tasks[t].op = "idle"
    /\ Goto(t, [Idle EXCEPT !.op = "clear", !.pc = "cl_clear"])
    /\ UNCHANGED <<store, now, sinceZero, startedToday, checksToday, calls>>

\* await Storage.clear(): browserAPI.storage.local.clear() removes every
\* key, the counters and their anchor days among them; the popup reloads
handleClearData_clear(t) ==
    /\ At(t, "cl_clear")
    /\ store' = ClearedStore
    /\ sinceZero' = [k \in Kinds |-> 0]
    /\ calls' = [i \in PlaylistIds |-> <<>>]
    /\ Goto(t, [tasks[t] EXCEPT !.pc = "done"])
    /\ UNCHANGED <<now, startedToday, checksToday>>

\* the wall clock advances; at a day boundary the per-day tallies start anew
Tick(maxNow) ==
    /\ now < maxNow
    /\ now' = now + 1
    /\ IF toDateString(now + 1) # toDateString(now)
       THEN /\ sinceZero' = [k \in Kinds |-> 0]
            /\ startedToday' = [k \in Kinds |-> 0]
            /\ checksToday' = 0
       ELSE UNCHANGED <<sinceZero, startedToday, checksToday>>
    /\ UNCHANGED <<store, tasks, calls>>

QuotaStep(t) ==
    \/ getUsage_readDate(t)
    \/ getUsage_setDate(t)
    \/ getUsage_setCount(t)
    \/ getUsage_readCount(t)
    \/ increment_set(t)
    \/ Return(t)

\* the state after construction: nothing running, the counters never written
\* or written by the install handler, no playlist tracked
InitQuota ==
    /\ now = 0
    /\ \E d \in {NoDate, toDateString(0)} :
          store = [EmptyStore EXCEPT !.usageDate = d]
    /\ tasks = [t \in Workers |-> Idle]
    /\ sinceZero = [k \in Kinds |-> 0]
    /\ startedToday = [k \in Kinds |-> 0]
    /\ checksToday = 0
    /\ calls = [i \in PlaylistIds |-> <<>>]

\* sequential use: one caller, each call runs to completion before the next
NextQuotaSeq ==
    \/ \E k \in Kinds : getUsage(1, k)
    \/ \E k \in Kinds : increment(1, k, SeqMaxIncs)
    \/ QuotaStep(1)
    \/ handleDailyReset(1)
    \/ handleDailyReset_set(1)
    \/ handleClearData(1)
    \/ handleClearData_clear(1)
    \/ Tick(QuotaMaxNow)

SpecQuotaSeq == InitQuota /\ [][NextQuotaSeq]_vars

\* overlapping use: two callers whose calls interleave at every await
NextQuotaConc ==
    \/ \E t \in TaskIds, k \in Kinds : getUsage(t, k)
    \/ \E t \in TaskIds, k \in Kinds : increment(t, k, ConcMaxIncs)
    \/ \E t \in TaskIds : QuotaStep(t)
    \/ Tick(QuotaMaxNow)

SpecQuotaConc == InitQuota /\ [][NextQuotaConc]_vars

\* overlapping use together with the dailyReset alarm
NextQuota ==
    \/ \E t \in TaskIds, k \in Kinds : getUsage(t, k)
    \/ \E t \in TaskIds, k \in Kinds : increment(t, k, ConcMaxIncs)
    \/ \E t \in TaskIds : QuotaStep(t)
    \/ handleDailyReset(3)
    \/ handleDailyReset_set(3)
    \/ Tick(QuotaMaxNow)

SpecQuota == InitQuota /\ [][NextQuota]_vars


-----------------------------------------------------------------------------
(* popup.js handleSingleCheck, with Premium.getTier, SpotifyAPI.getPlaylist *)
(* and updateUsageUI                                                        *)

\* a test that takes an expiry that is not set for one that has elapsed
NeedsReverify_unsetElapsed(tier, expiry, t) == tier # "free" /\ t > expiry

\* if (tier !== TIERS.FREE && expiry > 0) { if (Date.now() > expiry)
NeedsReverify(tier, expiry, t) == tier # "free" /\ expiry > 0 /\ t > expiry

\* one counter read for every action
usageKind_interactive(action) == "interactive"

\* the counter canPerform reads: Storage.getDailyUsage() for 'check',
\* Storage.getApiDailyUsage() for 'api'
usageKind(action) == IF action = "api" THEN "api" ELSE "interactive"

\* Premium.canPerform(action) once getTier has returned f.tier: LIMITS[tier]
\* of a string that is no tier is undefined, and reading its field, as the
\* branches of check, bulk and api do, throws
canPerform_limits(f) ==
    IF f.action \notin {"check", "bulk", "api"}
    THEN [f EXCEPT !.allowed = FALSE, !.remaining = 0, !.pc = "done"]
    ELSE IF f.tier \notin Tiers
    THEN [f EXCEPT !.outcome = "threw", !.pc = "done"]
    ELSE LET limits == LIMITS(f.tier) IN
         CASE f.action = "check" ->
                 IF limits.dailyChecks = Infinity
                 THEN [f EXCEPT !.allowed = TRUE, !.remaining = Infinity,
                                !.pc = "done"]
                 ELSE getUsage_call(f, usageKind(f.action), "can")
           [] f.action = "bulk" ->
                 [f EXCEPT !.allowed = limits.bulkLimit > 0,
                           !.remaining = limits.bulkLimit, !.pc = "done"]
           [] f.action = "api" ->
                 IF ~limits.api
                 THEN [f EXCEPT !.allowed = FALSE, !.remaining = 0,
                                !.pc = "done"]
                 ELSE getUsage_call(f, usageKind(f.action), "can")

\* the code that runs when getTier returns tier to its caller: a caller of
\* the method has the value, handleSingleCheck keeps it and reads the usage only for the free tier,
\* updateUsageUI returns at once for a paid tier
AfterTier(f, tier) ==
    IF f.stage = "ret"
    THEN [f EXCEPT !.tier = tier, !.pc = "done"]
    ELSE IF f.stage = "can"
    THEN canPerform_limits([f EXCEPT !.tier = tier])
    ELSE IF f.stage = "limit"
    THEN IF tier = "free"
         THEN getUsage_call([f EXCEPT !.tier = tier], "interactive", "limit")
         ELSE [f EXCEPT !.tier = tier, !.pc = "gp_token"]
    ELSE IF tier # "free"
         THEN [f EXCEPT !.outcome = "shown", !.pc = "done"]
         ELSE getUsage_call(f, "interactive", "ui")

\* const tier = await Storage.get(KEYS.TIER, TIERS.FREE)
getTier_readTier(t) ==
    /\ At(t, "gt_tier")
    /\ Goto(t, [tasks[t] EXCEPT !.cached = storedTier(store),
                                !.pc = "gt_expiry"])
    /\ UNCHANGED <<store, now, sinceZero, startedToday, checksToday, calls>>

\* const expiry = await Storage.get(KEYS.TIER_EXPIRY, 0); the expiry test;
\* return tier
getTier_readExpiry(t) ==
    /\ At(t, "gt_expiry")
    /\ LET f == [tasks[t] EXCEPT !.expiry = store.tierExpiry]
       IN Goto(t, IF NeedsReverify(f.cached, f.expiry, now)
                  THEN [f EXCEPT !.pc = "vs_email"]
                  ELSE AfterTier(f, f.cached))
    /\ UNCHANGED <<store, now, sinceZero, startedToday, checksToday, calls>>

\* const token = await this.getAccessToken(): with a token the playlist
\* request is sent, without one getPlaylist throws and the check fails
getPlaylist_token(t) ==
    /\ At(t, "gp_token")
    /\ \E ok \in BOOLEAN :
          Goto(t, IF ok THEN [tasks[t] EXCEPT !.fetches = @ + 1,
                                              !.pc = "gp_fetch"]
                        ELSE [tasks[t] EXCEPT !.outcome = "failed", !.pc = "done"])
    /\ UNCHANGED <<store, now, sinceZero, startedToday, checksToday, calls>>

\* a check of a free user counted whether or not the playlist was fetched
countsCheck_always(ok, tier) == tier = "free"

\* the increment is inside the try, after getPlaylist has returned:
\* if (tier === 'free') await Storage.incrementDailyUsage()
countsCheck(ok, tier) == ok /\ tier = "free"

\* the playlist response: if (!response.ok) throw; back in handleSingleCheck
\* if (tier === 'free') await Storage.incrementDailyUsage(); the tallies
\* count the playlists a free user was given
getPlaylist_response(t) ==
    /\ At(t, "gp_fetch")
    /\ \E ok \in BOOLEAN :
          LET f == tasks[t] IN
          /\ Goto(t, IF countsCheck(ok, f.tier)
                     THEN getUsage_call(f, "interactive", "inc")
                     ELSE IF ~ok
                     THEN [f EXCEPT !.outcome = "failed", !.pc = "done"]
                     ELSE [f EXCEPT !.outcome = "shown", !.pc = "done"])
          /\ IF ok /\ f.tier = "free"
             THEN /\ sinceZero' = [sinceZero EXCEPT !["interactive"] = @ + 1]
                  /\ startedToday' = [startedToday EXCEPT !["interactive"] = @ + 1]
                  /\ checksToday' = checksToday + 1
             ELSE UNCHANGED <<sinceZero, startedToday, checksToday>>
    /\ UNCHANGED <<store, now, calls>>

\* a click, Enter or paste runs handleSingleCheck on the text of the input:
\* an empty or unmatched text shows an error, a playlist link goes on to
\* getTier
handleSingleCheck(t, urlOk) ==
    /\ tasks[t].op = "idle"
    /\ checksToday < MaxChecks
    /\ Goto(t, IF urlOk
               THEN getTier_call([Idle EXCEPT !.op = "check"], "limit")
               ELSE [Idle EXCEPT !.op = "check", !.outcome = "invalid",
                                 !.pc = "done"])
    /\ UNCHANGED <<store, now, sinceZero, startedToday, checksToday, calls>>

CheckStep(t) ==
    \/ getTier_readTier(t)
    \/ getTier_readExpiry(t)
    \/ getPlaylist_token(t)
    \/ getPlaylist_response(t)

\* the popup of a free user or of a paid user whose tier has no expiry on
\* record
InitCheck ==
    /\ now = 0
    /\ \E d \in {NoDate, toDateString(0)}, tier \in {"free", "premium"} :
          store = [EmptyStore EXCEPT !.usageDate = d, !.userTier = tier]
    /\ tasks = [t \in Workers |-> Idle]
    /\ sinceZero = [k \in Kinds |-> 0]
    /\ startedToday = [k \in Kinds |-> 0]
    /\ checksToday = 0
    /\ calls = [i \in PlaylistIds |-> <<>>]

\* single checks started while earlier ones are still awaiting
NextCheck ==
    \/ \E t \in TaskIds, urlOk \in BOOLEAN : handleSingleCheck(t, urlOk)
    \/ \E t \in TaskIds : CheckStep(t)
    \/ \E t \in TaskIds : QuotaStep(t)
    \/ Tick(CheckMaxNow)

SpecCheck == InitCheck /\ [][NextCheck]_vars

-----------------------------------------------------------------------------
(* Premium.canPerform                                                       *)

\* a caller invokes Premium.canPerform(action): the tier is resolved first
canPerform(t, action) ==
    /\ tasks[t].op = "idle"
    /\ Goto(t, getTier_call([Idle EXCEPT !.op = "canPerform",
                                         !.action = action], "can"))
    /\ UNCHANGED <<store, now, sinceZero, startedToday, checksToday, calls>>

\* the store of a user of any tier whose tier has no expiry on record
InitCan ==
    /\ now = 0
    /\ \E d \in {NoDate, toDateString(0)}, tier \in Tiers :
          store = [EmptyStore EXCEPT !.usageDate = d, !.userTier = tier]
    /\ tasks = [t \in Workers |-> Idle]
    /\ sinceZero = [k \in Kinds |-> 0]
    /\ startedToday = [k \in Kinds |-> 0]
    /\ checksToday = 0
    /\ calls = [i \in PlaylistIds |-> <<>>]

\* one caller asks what it may do between increments of either counter, each
\* call completed before the next and before the clock or the alarm moves
NextCan ==
    \/ \E action \in {"check", "bulk", "api", "export"} : canPerform(1, action)
    \/ increment(1, "interactive", CanMaxChecks)
    \/ increment(1, "api", CanMaxApi)
    \/ getTier_readTier(1)
    \/ getTier_readExpiry(1)
    \/ QuotaStep(1)
    \/ handleDailyReset(1)
    \/ handleDailyReset_set(1)
    \/ (AllIdle /\ Tick(CanMaxNow))

SpecCan == InitCan /\ [][NextCan]_vars

-----------------------------------------------------------------------------
(* Tracked-Playlist Store: Storage.trackPlaylist, untrackPlaylist,          *)
(* getPlaylistHistory.  A playlist update is {id, followers, timestamp};    *)
(* its name and image are copied exactly as followers is and are left out.  *)
(* A stored entry also has its history and the lastUpdated field the        *)
(* background refresh writes (0 while absent).                              *)

Min(a, b) == IF a < b THEN a ELSE b

\* the identifiers held by a collection
IdSet(tracked) == {tracked[i].id : i \in 1 .. Len(tracked)}

\* tracked.findIndex(p => p.id === id): the first position holding id, 0 for
\* JavaScript's -1
findIndex(tracked, id) ==
    IF \E i \in 1 .. Len(tracked) : tracked[i].id = id
    THEN CHOOSE i \in 1 .. Len(tracked) :
            /\ tracked[i].id = id
            /\ \A j \in 1 .. i - 1 : tracked[j].id # id
    ELSE 0

\* { followers: playlist.followers, timestamp: playlist.timestamp }
HistoryEntry(playlist) ==
    [followers |-> playlist.followers, timestamp |-> playlist.timestamp]

\* array.pop(): the array without its last element
pop(array) == SubSeq(array, 1, Len(array) - 1)

\* a history that drops its newest entry instead of its oldest
capHistory_shift(history) ==
    IF Len(history) > HISTORY_CAP THEN Tail(history) ELSE history

\* if (history.length > 30) history.pop()
capHistory(history) ==
    IF Len(history) > HISTORY_CAP THEN pop(history) ELSE history

\* a collection whose cap is tested one entry too late
capTracked_late(tracked) ==
    IF Len(tracked) > TRACKED_CAP + 1 THEN pop(tracked) ELSE tracked

\* if (tracked.length > 50) tracked.pop()
capTracked(tracked) ==
    IF Len(tracked) > TRACKED_CAP THEN pop(tracked) ELSE tracked

\* history.unshift(entry); the cap
withEntry(history, entry) == capHistory(<<entry>> \o history)

\* the entry {...existing, ...playlist, history}
mergeExisting(existing, playlist) ==
    [id |-> playlist.id, followers |-> playlist.followers,
     timestamp |-> playlist.timestamp, lastUpdated |-> existing.lastUpdated,
     history |-> withEntry(existing.history, HistoryEntry(playlist))]

\* an update that also moves the entry to the front of the collection
updateExisting_toFront(tracked, i, playlist) ==
    <<mergeExisting(tracked[i], playlist)>>
        \o SubSeq(tracked, 1, i - 1) \o SubSeq(tracked, i + 1, Len(tracked))

\* tracked[existingIndex] = {...existing, ...playlist, history}
updateExisting(tracked, i, playlist) ==
    [tracked EXCEPT ![i] = mergeExisting(tracked[i], playlist)]

\* tracked.unshift({...playlist, history: [entry]}); the cap
addNew(tracked, playlist) ==
    capTracked(<<[id |-> playlist.id, followers |-> playlist.followers,
                  timestamp |-> playlist.timestamp, lastUpdated |-> 0,
                  history |-> <<HistoryEntry(playlist)>>]>> \o tracked)

\* the collection trackPlaylist writes, from the one it read
trackPlaylist_result(tracked, playlist) ==
    LET existingIndex == findIndex(tracked, playlist.id)
    IN IF existingIndex >= 1 THEN updateExisting(tracked, existingIndex, playlist)
                             ELSE addNew(tracked, playlist)

\* tracked.filter(p => p.id !== playlistId)
untrackPlaylist_result(tracked, playlistId) ==
    SelectSeq(tracked, LAMBDA p : p.id # playlistId)

\* Storage.getPlaylistHistory: playlist?.history || []
getPlaylistHistory(tracked, playlistId) ==
    LET i == findIndex(tracked, playlistId)
    IN IF i >= 1 THEN tracked[i].history ELSE <<>>

\* the log of track calls, once the collection c is what the store holds: the
\* log of an identifier that is not in c starts anew
LogAfter(log, c) ==
    LET ids == IdSet(c)
    IN [i \in PlaylistIds |-> IF i \in ids THEN log[i] ELSE <<>>]

\* popup.js handleTrackPlaylist: Storage.trackPlaylist is called with the
\* playlist on display and timestamp Date.now(); the read of the collection
\* is issued
trackPlaylist(t, id, followers) ==
    /\ tasks[t].op = "idle"
    /\ LET playlist == [id |-> id, followers |-> followers, timestamp |-> now]
       IN /\ Goto(t, [Idle EXCEPT !.op = "track", !.arg = playlist,
                                  !.pc = "tp_read"])
          /\ calls' = [calls EXCEPT ![id] = Append(@, HistoryEntry(playlist))]
    /\ UNCHANGED <<store, now, sinceZero, startedToday, checksToday>>

\* const tracked = await this.getTrackedPlaylists()
trackPlaylist_read(t) ==
    /\ At(t, "tp_read")
    /\ Goto(t, [tasks[t] EXCEPT !.snap = store.trackedPlaylists, !.pc = "tp_set"])
    /\ UNCHANGED <<store, now, sinceZero, startedToday, checksToday, calls>>

\* await this.set(KEYS.TRACKED_PLAYLISTS, tracked)
trackPlaylist_set(t) ==
    /\ At(t, "tp_set")
    /\ LET tracked == trackPlaylist_result(tasks[t].snap, tasks[t].arg)
       IN /\ store' = [store EXCEPT !.trackedPlaylists = tracked]
          /\ calls' = LogAfter(calls, tracked)
    /\ Goto(t, [tasks[t] EXCEPT !.snap = <<>>, !.pc = "done"])
    /\ UNCHANGED <<now, sinceZero, startedToday, checksToday>>

\* a caller invokes Storage.untrackPlaylist(playlistId)
untrackPlaylist(t, id) ==
    /\ tasks[t].op = "idle"
    /\ Goto(t, [Idle EXCEPT !.op = "untrack", !.arg = [NoPlaylist EXCEPT !.id = id],
                            !.pc = "up_read"])
    /\ UNCHANGED <<store, now, sinceZero, startedToday, checksToday, calls>>

\* const tracked = await this.getTrackedPlaylists()
untrackPlaylist_read(t) ==
    /\ At(t, "up_read")
    /\ Goto(t, [tasks[t] EXCEPT !.snap = store.trackedPlaylists, !.pc = "up_set"])
    /\ UNCHANGED <<store, now, sinceZero, startedToday, checksToday, calls>>

\* await this.set(KEYS.TRACKED_PLAYLISTS, filtered)
untrackPlaylist_set(t) ==
    /\ At(t, "up_set")
    /\ LET filtered == untrackPlaylist_result(tasks[t].snap, tasks[t].arg.id)
       IN /\ store' = [store EXCEPT !.trackedPlaylists = filtered]
          /\ calls' = LogAfter(calls, filtered)
    /\ Goto(t, [tasks[t] EXCEPT !.snap = <<>>, !.pc = "done"])
    /\ UNCHANGED <<now, sinceZero, startedToday, checksToday>>

TrackStep(t) ==
    \/ trackPlaylist_read(t)
    \/ trackPlaylist_set(t)
    \/ untrackPlaylist_read(t)
    \/ untrackPlaylist_set(t)

\* the follower count the provider reports at a capture: one more per capture
FollowersAt(id) == Len(calls[id]) + 1

\* a fresh install: nothing tracked, no task running
InitTrack ==
    /\ now = 0
    /\ store = [EmptyStore EXCEPT !.usageDate = toDateString(0)]
    /\ tasks = [t \in Workers |-> Idle]
    /\ sinceZero = [k \in Kinds |-> 0]
    /\ startedToday = [k \in Kinds |-> 0]
    /\ checksToday = 0
    /\ calls = [i \in PlaylistIds |-> <<>>]

\* one playlist tracked again and again, a second one now and then, each call
\* completed before the next; the clock may or may not advance between calls
NextHist ==
    \/ (Len(calls[1]) < HistMaxCalls /\ trackPlaylist(1, 1, FollowersAt(1)))
    \/ (Len(calls[2]) < OtherMaxCalls /\ trackPlaylist(1, 2, FollowersAt(2)))
    \/ \E id \in {1, 2} : untrackPlaylist(1, id)
    \/ TrackStep(1)
    \/ Return(1)
    \/ Tick(HistMaxNow)

SpecHist == InitTrack /\ [][NextHist]_vars

\* the caller has its result after one unit of time
ReturnLater(t) ==
    /\ At(t, "done")
    /\ Goto(t, Idle)
    /\ now' = now + 1
    /\ UNCHANGED <<store, sinceZero, startedToday, checksToday, calls>>

\* the next identifier never seen in the collection
FreshId(tracked) ==
    LET ids == IdSet(tracked)
    IN IF ids = {} THEN 1 ELSE 1 + CHOOSE m \in ids : \A i \in ids : i <= m

\* the calls made so far that did not add a new identifier
ExtraCalls == now - (FreshId(store.trackedPlaylists) - 1)

\* the collection is short or within one entry of its cap
NearEdge ==
    \/ Len(store.trackedPlaylists) <= CollLow
    \/ Len(store.trackedPlaylists) >= TRACKED_CAP - 1

\* a call that adds no new identifier may be made
MayRepeat == ExtraCalls < CollExtra /\ NearEdge

\* playlists tracked one after the other, the two oldest identifiers tracked
\* again or untracked now and then while the collection is short or nearly
\* full, each call completed before the next and one unit of time apart
NextColl ==
    \/ LET fresh == FreshId(store.trackedPlaylists)
       IN \E id \in {1, 2, fresh} :
             /\ id <= CollMaxId
             /\ id = fresh \/ MayRepeat
             /\ trackPlaylist(1, id, FollowersAt(id))
    \/ \E id \in {1, 2} : (MayRepeat /\ untrackPlaylist(1, id))
    \/ TrackStep(1)
    \/ ReturnLater(1)

SpecColl == InitTrack /\ [][NextColl]_vars

\* two callers track two playlists, their calls overlapping freely; a caller
\* has its result after one unit of time
NextTrackConc ==
    \/ \E t \in TaskIds, id \in {1, 2} :
          /\ now < ConcMaxNow
          /\ trackPlaylist(t, id, FollowersAt(id))
    \/ \E t \in TaskIds : trackPlaylist_read(t)
    \/ \E t \in TaskIds : trackPlaylist_set(t)
    \/ \E t \in TaskIds : ReturnLater(t)

SpecTrackConc == InitTrack /\ [][NextTrackConc]_vars

-----------------------------------------------------------------------------
(* Background tasks on the collection: the service worker's                 *)
(* handleSyncTracked (alarm syncTracked, message SYNC_NOW) and              *)
(* Storage.syncWithCloud                                                    *)

\* the entry the refresh returns for a playlist whose fetch answered ok with
\* newFollowers, at time t: history.unshift({followers, timestamp}), the cap
\* of 30, {...playlist, followers, history, lastUpdated}
refreshPlaylist(playlist, newFollowers, t) ==
    LET history == <<[followers |-> newFollowers, timestamp |-> t]>>
                       \o playlist.history
    IN [playlist EXCEPT
          !.followers = newFollowers,
          !.history = IF Len(history) > 30 THEN pop(history) ELSE history,
          !.lastUpdated = t]

\* trackedPlaylists.slice(0, 10): what the map runs over, and what each
\* callback returns when its fetch fails or does not answer ok
refreshSlice(trackedPlaylists) ==
    SubSeq(trackedPlaylists, 1, Min(Len(trackedPlaylists), REFRESH_SLICE))

\* the alarm or the message starts handleSyncTracked: the read of userTier,
\* userEmail and trackedPlaylists is issued
handleSyncTracked(t) ==
    /\ tasks[t].op = "idle"
    /\ Goto(t, [Idle EXCEPT !.op = "refresh", !.pc = "hs_read"])
    /\ UNCHANGED <<store, now, sinceZero, startedToday, checksToday, calls>>

\* the identifiers of a collection, in its order
IdsOf(tracked) == [i \in 1 .. Len(tracked) |-> tracked[i].id]

\* the three keys are read at once; if (userTier === 'free' || !userEmail)
\* return; the token request is issued.  The frame keeps the identifiers
\* that were read
handleSyncTracked_read(t) ==
    /\ At(t, "hs_read")
    /\ LET f == [tasks[t] EXCEPT !.had = IdsOf(store.trackedPlaylists)] IN
       IF store.userTier = "free" \/ store.userEmail = ""
       THEN Goto(t, [f EXCEPT !.pc = "done"])
       ELSE Goto(t, [f EXCEPT !.snap = store.trackedPlaylists,
                              !.pc = "hs_token"])
    /\ UNCHANGED <<store, now, sinceZero, startedToday, checksToday, calls>>

\* const token = await getAccessToken();
\* if (!token || !trackedPlaylists?.length) return
handleSyncTracked_token(t) ==
    /\ At(t, "hs_token")
    /\ \E token \in BOOLEAN :
          IF ~token \/ Len(tasks[t].snap) = 0
          THEN Goto(t, [tasks[t] EXCEPT !.snap = <<>>, !.pc = "done"])
          ELSE Goto(t, [tasks[t] EXCEPT !.updated = refreshSlice(tasks[t].snap),
                                        !.answered = {}, !.pc = "hs_fetch"])
    /\ UNCHANGED <<store, now, sinceZero, startedToday, checksToday, calls>>

\* the fetch of the playlist at position i answers: ok, the callback returns
\* the entry refreshed with one follower more and stamped with Date.now() of
\* this answer, else the playlist as it was read.  With the last answer
\* Promise.all resolves and the write of updatedPlaylists is issued
handleSyncTracked_fetch(t, i) ==
    /\ At(t, "hs_fetch")
    /\ i \in 1 .. Len(tasks[t].updated)
    /\ i \notin tasks[t].answered
    /\ \E ok \in BOOLEAN :
          LET playlist == tasks[t].snap[i]
              f == [tasks[t] EXCEPT
                      !.updated[i] =
                          IF ok THEN refreshPlaylist(playlist,
                                                     playlist.followers + 1, now)
                                ELSE playlist,
                      !.answered = @ \cup {i}]
          IN Goto(t, IF f.answered = 1 .. Len(f.updated)
                     THEN [f EXCEPT !.pc = "hs_set"]
                     ELSE f)
    /\ UNCHANGED <<store, now, sinceZero, startedToday, checksToday, calls>>

\* await browserAPI.storage.local.set({ trackedPlaylists: updatedPlaylists })
handleSyncTracked_set(t) ==
    /\ At(t, "hs_set")
    /\ store' = [store EXCEPT !.trackedPlaylists = tasks[t].updated]
    /\ calls' = LogAfter(calls, tasks[t].updated)
    /\ Goto(t, [tasks[t] EXCEPT !.snap = <<>>, !.pc = "hs_post"])
    /\ UNCHANGED <<now, sinceZero, startedToday, checksToday>>

\* await fetch(.../api/sync): the upload answers or throws into the catch;
\* its answer is not read
handleSyncTracked_post(t) ==
    /\ At(t, "hs_post")
    /\ Goto(t, [tasks[t] EXCEPT !.updated = <<>>, !.pc = "done"])
    /\ UNCHANGED <<store, now, sinceZero, startedToday, checksToday, calls>>

RefreshStep(t) ==
    \/ handleSyncTracked_read(t)
    \/ handleSyncTracked_token(t)
    \/ \E i \in 1 .. REFRESH_SLICE : handleSyncTracked_fetch(t, i)
    \/ handleSyncTracked_set(t)
    \/ handleSyncTracked_post(t)

\* what the sync endpoint may answer to the upload of a collection: the
\* request throws ("error"), the status is not OK ("bad"), the status is OK
\* and the body does not parse ("garbled"), or the status is OK and the body
\* parses ("ok"); a body that is read carries no trackedPlaylists, or the
\* uploaded collection, or one of remotes
CloudResponses(uploaded, remotes) ==
    {[status |-> st, has |-> FALSE, trackedPlaylists |-> <<>>] :
        st \in {"error", "bad", "garbled", "ok"}}
    \cup {[status |-> st, has |-> TRUE, trackedPlaylists |-> c] :
             st \in {"bad", "ok"}, c \in {uploaded} \cup remotes}

\* a sync that does not look at the status of the response
replaces_anyStatus(response) == response.has

\* if (response.ok) { cloudData = await response.json();
\* if (cloudData.trackedPlaylists)
replaces(response) == response.status = "ok" /\ response.has

\* a sync that keeps the local entries the remote collection does not have
cloudCollection_merge(tracked, remote) ==
    remote \o SelectSeq(tracked, LAMBDA p : p.id \notin IdSet(remote))

\* the value written under KEYS.TRACKED_PLAYLISTS: cloudData.trackedPlaylists
cloudCollection(tracked, remote) == remote

\* the synchronous head of Storage.syncWithCloud(userId): the read of the
\* collection is issued
syncWithCloud_call(f, userId) ==
    [f EXCEPT !.userId = userId, !.uploads = 0, !.pc = "sc_read"]

\* a caller invokes Storage.syncWithCloud(userId)
syncWithCloud(t) ==
    /\ tasks[t].op = "idle"
    /\ Goto(t, syncWithCloud_call([Idle EXCEPT !.op = "sync"], store.userEmail))
    /\ UNCHANGED <<store, now, sinceZero, startedToday, checksToday, calls>>

\* const tracked = await this.getTrackedPlaylists(); the upload is sent
syncWithCloud_read(t) ==
    /\ At(t, "sc_read")
    /\ Goto(t, [tasks[t] EXCEPT !.snap = store.trackedPlaylists,
                                !.uploads = @ + 1, !.pc = "sc_post"])
    /\ UNCHANGED <<store, now, sinceZero, startedToday, checksToday, calls>>

\* what an answer to the upload is: a failure, an OK answer without a
\* collection, or an OK answer with one
answerKind(response) ==
    IF response.status # "ok" THEN "failed"
    ELSE IF response.has THEN "replace" ELSE "none"

\* the answer to the upload: when it replaces the collection the write is
\* issued, otherwise (also by way of the catch) the call returns
syncWithCloud_response(t, remotes) ==
    /\ At(t, "sc_post")
    /\ \E response \in CloudResponses(tasks[t].snap, remotes) :
          LET f == [tasks[t] EXCEPT !.outcome = answerKind(response)]
          IN IF replaces(response)
             THEN Goto(t, [f EXCEPT !.updated = response.trackedPlaylists,
                                    !.pc = "sc_set"])
             ELSE Goto(t, [f EXCEPT !.pc = "done"])
    /\ UNCHANGED <<store, now, sinceZero, startedToday, checksToday, calls>>

\* await this.set(KEYS.TRACKED_PLAYLISTS, cloudData.trackedPlaylists)
syncWithCloud_set(t) ==
    /\ At(t, "sc_set")
    /\ LET written == cloudCollection(tasks[t].snap, tasks[t].updated)
       IN /\ store' = [store EXCEPT !.trackedPlaylists = written]
          /\ calls' = LogAfter(calls, written)
    /\ Goto(t, [tasks[t] EXCEPT !.pc = "done"])
    /\ UNCHANGED <<now, sinceZero, startedToday, checksToday>>

SyncStep(t, remotes) ==
    \/ syncWithCloud_read(t)
    \/ syncWithCloud_response(t, remotes)
    \/ syncWithCloud_set(t)

\* the background task is between its first read and its return
InFlight(t) == tasks[t].pc \notin {"idle", "done"}

\* a fresh install, or a paid account that tracks one playlist
InitBg ==
    /\ now = 0
    /\ \E paid \in BOOLEAN :
          LET first == [id |-> 1, followers |-> 1, timestamp |-> 0]
          IN IF paid
             THEN /\ store = [EmptyStore EXCEPT
                                 !.usageDate = toDateString(0),
                                 !.userTier = "premium", !.userEmail = "user",
                                 !.subscriptionId = "sub",
                                 !.trackedPlaylists =
                                     trackPlaylist_result(<<>>, first)]
                  /\ calls = [i \in PlaylistIds |->
                                 IF i = 1 THEN <<HistoryEntry(first)>> ELSE <<>>]
             ELSE /\ store = [EmptyStore EXCEPT !.usageDate = toDateString(0)]
                  /\ calls = [i \in PlaylistIds |-> <<>>]
    /\ tasks = [t \in Workers |-> Idle]
    /\ sinceZero = [k \in Kinds |-> 0]
    /\ startedToday = [k \in Kinds |-> 0]
    /\ checksToday = 0

\* task 2 runs the refresh or the cloud sync, the sync endpoint answering with
\* nothing but what was uploaded; task 1 makes the popup's track and untrack
\* calls, each begun while the background task is in flight
NextBg ==
    \/ \E id \in {1, 2} :
          /\ now < BgMaxNow
          /\ InFlight(2)
          /\ trackPlaylist(1, id, FollowersAt(id))
    \/ \E id \in {1, 2} :
          /\ now < BgMaxNow
          /\ InFlight(2)
          /\ untrackPlaylist(1, id)
    \/ TrackStep(1)
    \/ ReturnLater(1)
    \/ (now < BgMaxNow /\ tasks[1].op = "idle" /\ handleSyncTracked(2))
    \/ (now < BgMaxNow /\ tasks[1].op = "idle" /\ syncWithCloud(2))
    \/ RefreshStep(2)
    \/ SyncStep(2, {})
    \/ ReturnLater(2)

SpecBg == InitBg /\ [][NextBg]_vars

\* the collection is short or longer than what one refresh fetches
RefreshEdge ==
    \/ Len(store.trackedPlaylists) <= RefreshLow
    \/ Len(store.trackedPlaylists) > REFRESH_SLICE

\* playlists are tracked one after the other and the refresh runs now and
\* then, while the collection is short or long, each call completed before
\* the next and one unit of time apart
NextRefresh ==
    \/ LET fresh == FreshId(store.trackedPlaylists)
       IN /\ fresh <= RefreshMaxId
          /\ now < RefreshMaxNow
          /\ trackPlaylist(1, fresh, FollowersAt(fresh))
    \/ trackPlaylist_read(1)
    \/ trackPlaylist_set(1)
    \/ (now < RefreshMaxNow /\ RefreshEdge /\ handleSyncTracked(1))
    \/ RefreshStep(1)
    \/ ReturnLater(1)

SpecRefresh == InitBg /\ [][NextRefresh]_vars

\* a collection held by the cloud for the account: one playlist tracked on
\* another device
RemoteCollection ==
    trackPlaylist_result(<<>>, [id |-> 3, followers |-> 7, timestamp |-> 0])

\* one caller tracks, untracks and syncs with the cloud, each call completed
\* before the next and one unit of time apart; the cloud answers with what was
\* uploaded or with its own collection
NextSync ==
    \/ \E id \in {1, 2} :
          (now < SyncMaxNow /\ trackPlaylist(1, id, FollowersAt(id)))
    \/ \E id \in {1, 2} : (now < SyncMaxNow /\ untrackPlaylist(1, id))
    \/ (now < SyncMaxNow /\ syncWithCloud(1))
    \/ TrackStep(1)
    \/ SyncStep(1, {RemoteCollection})
    \/ ReturnLater(1)

SpecSync == InitBg /\ [][NextSync]_vars

\* a settings object that has the theme only: { theme: 'light' }
LightTheme == [NoSettings EXCEPT !.present = TRUE, !.theme = "light"]

\* the objects updateSettings is given
SettingsUpdates ==
    {LightTheme, [NoSettings EXCEPT !.present = TRUE, !.autoCheck = "false"]}

\* Storage.getSettings: this.get(KEYS.SETTINGS, { autoCheck: true, showBadge:
\* true, theme: 'dark' })
getSettings(st) ==
    IF st.settings.present THEN st.settings
    ELSE [present |-> TRUE, autoCheck |-> "true", showBadge |-> "true",
          theme |-> "dark"]

\* { ...current, ...settings }: the keys of settings over those of current
mergeSettings(current, settings) ==
    [present |-> TRUE,
     autoCheck |-> IF settings.autoCheck # "" THEN settings.autoCheck
                   ELSE current.autoCheck,
     showBadge |-> IF settings.showBadge # "" THEN settings.showBadge
                   ELSE current.showBadge,
     theme |-> IF settings.theme # "" THEN settings.theme ELSE current.theme]

\* a caller invokes Storage.updateSettings(settings): the read of the
\* settings is issued
updateSettings(t, settings) ==
    /\ tasks[t].op = "idle"
    /\ Goto(t, [Idle EXCEPT !.op = "settings", !.settings = settings,
                            !.pc = "us_read"])
    /\ UNCHANGED <<store, now, sinceZero, startedToday, checksToday, calls>>

\* const current = await this.getSettings(); the write is issued
updateSettings_read(t) ==
    /\ At(t, "us_read")
    /\ Goto(t, [tasks[t] EXCEPT !.currentSettings = getSettings(store),
                                !.pc = "us_set"])
    /\ UNCHANGED <<store, now, sinceZero, startedToday, checksToday, calls>>

\* await this.set(KEYS.SETTINGS, { ...current, ...settings })
updateSettings_set(t) ==
    /\ At(t, "us_set")
    /\ store' = [store EXCEPT
                    !.settings = mergeSettings(tasks[t].currentSettings,
                                               tasks[t].settings)]
    /\ Goto(t, [tasks[t] EXCEPT !.pc = "done"])
    /\ UNCHANGED <<now, sinceZero, startedToday, checksToday, calls>>

\* an entry as another device, the cloud or a file may hold it: history
\* captures of one follower count
OutsideEntry(id, captures) ==
    [id |-> id, followers |-> 7, timestamp |-> 0, lastUpdated |-> 0,
     history |-> [k \in 1 .. captures |-> [followers |-> 7, timestamp |-> 0]]]

\* the collections a sync answer or an imported file may carry: the one of
\* another device, one with an entry more than the cap, one with an
\* identifier twice, one with a history of a capture more than the cap
OutsideCollections ==
    {RemoteCollection,
     [i \in 1 .. TRACKED_CAP + 1 |-> OutsideEntry(i, 1)],
     <<OutsideEntry(3, 1), OutsideEntry(3, 1)>>,
     <<OutsideEntry(3, HISTORY_CAP + 1)>>}

\* the objects importData may be given: with or without trackedPlaylists (an
\* empty array counts as present), with or without settings
ImportFiles ==
    {[NoImport EXCEPT !.settings = st] : st \in {NoSettings, LightTheme}}
    \cup {[hasTracked |-> TRUE, trackedPlaylists |-> c, settings |-> st] :
             c \in OutsideCollections \cup {<<>>},
             st \in {NoSettings, LightTheme}}

\* what follows the collection part of importData: if (data.settings) the
\* write of the settings is issued, else the call returns
importData_rest(f) ==
    IF f.imported.settings.present THEN [f EXCEPT !.pc = "im_settings"]
                                ELSE [f EXCEPT !.pc = "done"]

\* a caller invokes Storage.importData(data): if (data.trackedPlaylists) the
\* write of the collection is issued
importData(t, data) ==
    /\ tasks[t].op = "idle"
    /\ LET f == [Idle EXCEPT !.op = "import", !.imported = data]
       IN Goto(t, IF data.hasTracked THEN [f EXCEPT !.pc = "im_tracked"]
                                     ELSE importData_rest(f))
    /\ UNCHANGED <<store, now, sinceZero, startedToday, checksToday, calls>>

\* await this.set(KEYS.TRACKED_PLAYLISTS, data.trackedPlaylists)
importData_tracked(t) ==
    /\ At(t, "im_tracked")
    /\ LET written == tasks[t].imported.trackedPlaylists
       IN /\ store' = [store EXCEPT !.trackedPlaylists = written]
          /\ calls' = LogAfter(calls, written)
    /\ Goto(t, importData_rest(tasks[t]))
    /\ UNCHANGED <<now, sinceZero, startedToday, checksToday>>

\* await this.set(KEYS.SETTINGS, data.settings)
importData_settings(t) ==
    /\ At(t, "im_settings")
    /\ store' = [store EXCEPT !.settings = tasks[t].imported.settings]
    /\ Goto(t, [tasks[t] EXCEPT !.pc = "done"])
    /\ UNCHANGED <<now, sinceZero, startedToday, checksToday, calls>>

\* one caller tracks, syncs with the cloud and imports a file, each call
\* completed before the next and one unit of time apart
NextReplace ==
    \/ \E id \in {1, 2} :
          (now < SyncMaxNow /\ trackPlaylist(1, id, FollowersAt(id)))
    \/ trackPlaylist_read(1)
    \/ trackPlaylist_set(1)
    \/ (now < SyncMaxNow /\ syncWithCloud(1))
    \/ SyncStep(1, OutsideCollections)
    \/ \E data \in ImportFiles : (now < SyncMaxNow /\ importData(1, data))
    \/ importData_tracked(1)
    \/ importData_settings(1)
    \/ \E settings \in SettingsUpdates :
          (now < SyncMaxNow /\ updateSettings(1, settings))
    \/ updateSettings_read(1)
    \/ updateSettings_set(1)
    \/ (now < SyncMaxNow /\ handleClearData(1))
    \/ handleClearData_clear(1)
    \/ ReturnLater(1)

SpecReplace == InitBg /\ [][NextReplace]_vars

-----------------------------------------------------------------------------
(* Entitlement Cache: Premium.getTier, verifySubscription, setTier, signOut *)
(* and the service worker's verifySubscription                              *)

\* the expiry of a verification answer or payment event: 0 when it is absent
\* or zero, else a time
ExpiryValues == 0 .. MaxExpiry

\* if (expiresAt)
hasExpiry(expiresAt) == expiresAt # 0

\* the tier strings an answer or an event may carry: data.tier is stored as it
\* comes, so a string that is no tier of TIERS is among them
ResponseTiers == {"premium", "pro", "team"}

\* what the verification endpoint may answer: the request throws ("error"),
\* the status is not OK ("bad"), the body does not parse ("garbled"), or the
\* body says whether the subscription is active, with its tier and its expiry
VerifyResponses ==
    {[NoData EXCEPT !.status = st] : st \in {"error", "bad", "garbled"}}
    \cup {[NoData EXCEPT !.status = "ok", !.active = TRUE, !.tier = tier,
                         !.expiresAt = e] :
             tier \in ResponseTiers, e \in ExpiryValues}
    \cup {[NoData EXCEPT !.status = "ok", !.expiresAt = e] : e \in ExpiryValues}

\* a guard that is never taken
noIdentity_never(email, subscriptionId) == FALSE

\* if (!email && !subscriptionId)
noIdentity(email, subscriptionId) == email = "" /\ subscriptionId = ""

\* an answer is read whatever its status
verified_anyStatus(response) == response.status \in {"ok", "bad"}

\* fetch did not throw, response.ok, and response.json() did not throw
verified(response) == response.status = "ok"

\* a failure that falls back to the free tier
tierOnFailure_free(currentTier) == "free"

\* catch: return currentTier
tierOnFailure(currentTier) == currentTier

\* the synchronous head of Premium.setTier(tier, expiresAt): the write of the
\* tier is issued
setTier_call(f, tier, expiresAt, via) ==
    [f EXCEPT !.setTo = tier, !.setExpiry = expiresAt, !.via = via,
              !.pc = "st_tier"]

\* the synchronous head of Premium.verifySubscription: the read of the email
\* is issued
verifySubscription_call(f) == [f EXCEPT !.pc = "vs_email"]

\* the code that runs when verifySubscription returns tier: a caller of the
\* method has the value, getTier returns it to its own caller
AfterVerify(f, tier) ==
    IF f.op = "verify" THEN [f EXCEPT !.tier = tier, !.pc = "done"]
                       ELSE AfterTier(f, tier)

\* the code that runs when setTier returns: verifySubscription returns the
\* tier it set, signOut returns, handlePaymentSuccess calls
\* Storage.syncWithCloud(data.email)
AfterSetTier(f) ==
    CASE f.via = "verify"  -> AfterVerify(f, f.setTo)
      [] f.via = "payment" -> syncWithCloud_call(f, f.data.email)
      [] OTHER             -> [f EXCEPT !.pc = "done"]

\* await Storage.set(KEYS.TIER, tier); Date.now() is taken for the next write
setTier_tier(t) ==
    /\ At(t, "st_tier")
    /\ store' = [store EXCEPT !.userTier = tasks[t].setTo]
    /\ Goto(t, [tasks[t] EXCEPT !.stamp = now, !.pc = "st_verified"])
    /\ UNCHANGED <<now, sinceZero, startedToday, checksToday, calls>>

\* await Storage.set(KEYS.LAST_VERIFIED, Date.now()); if (expiresAt)
setTier_verified(t) ==
    /\ At(t, "st_verified")
    /\ store' = [store EXCEPT !.lastVerified = tasks[t].stamp]
    /\ Goto(t, IF hasExpiry(tasks[t].setExpiry)
               THEN [tasks[t] EXCEPT !.pc = "st_expiry"]
               ELSE AfterSetTier(tasks[t]))
    /\ UNCHANGED <<now, sinceZero, startedToday, checksToday, calls>>

\* await Storage.set(KEYS.TIER_EXPIRY, expiresAt)
setTier_expiry(t) ==
    /\ At(t, "st_expiry")
    /\ store' = [store EXCEPT !.tierExpiry = tasks[t].setExpiry]
    /\ Goto(t, AfterSetTier(tasks[t]))
    /\ UNCHANGED <<now, sinceZero, startedToday, checksToday, calls>>

\* const email = await Storage.get(KEYS.EMAIL)
verifySubscription_email(t) ==
    /\ At(t, "vs_email")
    /\ Goto(t, [tasks[t] EXCEPT !.email = store.userEmail, !.pc = "vs_sub"])
    /\ UNCHANGED <<store, now, sinceZero, startedToday, checksToday, calls>>

\* const subscriptionId = await Storage.get(KEYS.SUBSCRIPTION_ID);
\* if (!email && !subscriptionId) setTier(FREE), else the request is sent
verifySubscription_sub(t) ==
    /\ At(t, "vs_sub")
    /\ LET f == [tasks[t] EXCEPT !.sub = store.subscriptionId]
       IN Goto(t, IF noIdentity(f.email, f.sub)
                  THEN setTier_call(f, "free", 0, "verify")
                  ELSE [f EXCEPT !.attempts = @ + 1, !.pc = "vs_fetch"])
    /\ UNCHANGED <<store, now, sinceZero, startedToday, checksToday, calls>>

\* the answer to the verification request: a failure goes to the catch, an
\* active subscription to setTier(data.tier, data.expiresAt), an inactive one
\* to setTier(FREE)
verifySubscription_response(t) ==
    /\ At(t, "vs_fetch")
    /\ \E response \in VerifyResponses :
          LET f == [tasks[t] EXCEPT !.data = response]
          IN Goto(t, IF ~verified(response)
                     THEN [f EXCEPT !.pc = "vs_current"]
                     ELSE IF response.active
                     THEN setTier_call(f, response.tier, response.expiresAt,
                                       "verify")
                     ELSE setTier_call(f, "free", 0, "verify"))
    /\ UNCHANGED <<store, now, sinceZero, startedToday, checksToday, calls>>

\* catch: const currentTier = await Storage.get(KEYS.TIER, FREE);
\* return currentTier
verifySubscription_current(t) ==
    /\ At(t, "vs_current")
    /\ Goto(t, AfterVerify(tasks[t], tierOnFailure(storedTier(store))))
    /\ UNCHANGED <<store, now, sinceZero, startedToday, checksToday, calls>>

\* the tier and the expiry Premium.verifySubscription leaves in a store whose
\* entitlement was before, run alone and answered data: setTier(FREE) without
\* identity and for an inactive subscription, setTier(data.tier,
\* data.expiresAt) for an active one, nothing written after a failure; setTier
\* writes the expiry only if (expiresAt)
verifySubscription_effect(before, data) ==
    IF noIdentity(before.email, before.subscriptionId)
    THEN [tier |-> "free", expiry |-> before.expiry]
    ELSE IF ~verified(data)
    THEN [tier |-> before.tier, expiry |-> before.expiry]
    ELSE IF data.active
    THEN [tier |-> data.tier,
          expiry |-> IF hasExpiry(data.expiresAt) THEN data.expiresAt
                     ELSE before.expiry]
    ELSE [tier |-> "free", expiry |-> before.expiry]

\* a caller invokes Premium.getTier()
getTier(t) ==
    /\ tasks[t].op = "idle"
    /\ Goto(t, getTier_call([Idle EXCEPT !.op = "getTier", !.began = now,
                                         !.before = Entitlement(store)], "ret"))
    /\ UNCHANGED <<store, now, sinceZero, startedToday, checksToday, calls>>

\* a caller invokes Premium.verifySubscription()
verifySubscription(t) ==
    /\ tasks[t].op = "idle"
    /\ Goto(t, verifySubscription_call(
                   [Idle EXCEPT !.op = "verify", !.before = Entitlement(store)]))
    /\ UNCHANGED <<store, now, sinceZero, startedToday, checksToday, calls>>

\* popup.js handleSignOut calls Premium.signOut(): the removal of the email
\* is issued
signOut(t) ==
    /\ tasks[t].op = "idle"
    /\ Goto(t, [Idle EXCEPT !.op = "signOut", !.before = Entitlement(store),
                            !.pc = "so_email"])
    /\ UNCHANGED <<store, now, sinceZero, startedToday, checksToday, calls>>

\* await Storage.remove(KEYS.EMAIL)
signOut_email(t) ==
    /\ At(t, "so_email")
    /\ store' = [store EXCEPT !.userEmail = ""]
    /\ Goto(t, [tasks[t] EXCEPT !.pc = "so_sub"])
    /\ UNCHANGED <<now, sinceZero, startedToday, checksToday, calls>>

\* await Storage.remove(KEYS.SUBSCRIPTION_ID)
signOut_sub(t) ==
    /\ At(t, "so_sub")
    /\ store' = [store EXCEPT !.subscriptionId = ""]
    /\ Goto(t, [tasks[t] EXCEPT !.pc = "so_expiry"])
    /\ UNCHANGED <<now, sinceZero, startedToday, checksToday, calls>>

\* a signOut that leaves the expiry in the store
signOut_expiry_kept(t) ==
    /\ At(t, "so_expiry")
    /\ Goto(t, setTier_call(tasks[t], "free", 0, "signOut"))
    /\ UNCHANGED <<store, now, sinceZero, startedToday, checksToday, calls>>

\* await Storage.remove(KEYS.TIER_EXPIRY); await this.setTier(TIERS.FREE)
signOut_expiry(t) ==
    /\ At(t, "so_expiry")
    /\ store' = [store EXCEPT !.tierExpiry = 0]
    /\ Goto(t, setTier_call(tasks[t], "free", 0, "signOut"))
    /\ UNCHANGED <<now, sinceZero, startedToday, checksToday, calls>>

\* the alarm verifySubscription, the message CHECK_SUBSCRIPTION or the start
\* of the service worker runs its verifySubscription: the read of userEmail
\* and subscriptionId is issued
swVerifySubscription(t) ==
    /\ tasks[t].op = "idle"
    /\ Goto(t, [Idle EXCEPT !.op = "swVerify", !.before = Entitlement(store),
                            !.pc = "sv_read"])
    /\ UNCHANGED <<store, now, sinceZero, startedToday, checksToday, calls>>

\* both keys are read at once; if (!userEmail && !subscriptionId) return;
\* the request is sent
swVerifySubscription_read(t) ==
    /\ At(t, "sv_read")
    /\ LET f == [tasks[t] EXCEPT !.email = store.userEmail,
                                 !.sub = store.subscriptionId]
       IN Goto(t, IF noIdentity(f.email, f.sub)
                  THEN [f EXCEPT !.pc = "done"]
                  ELSE [f EXCEPT !.attempts = @ + 1, !.pc = "sv_fetch"])
    /\ UNCHANGED <<store, now, sinceZero, startedToday, checksToday, calls>>

\* the answer to the request: if (response.ok) the body is read and the write
\* of the three keys is issued with Date.now(), else the function returns
swVerifySubscription_response(t) ==
    /\ At(t, "sv_fetch")
    /\ \E response \in VerifyResponses :
          LET f == [tasks[t] EXCEPT !.data = response]
          IN Goto(t, IF ~verified(response)
                     THEN [f EXCEPT !.pc = "done"]
                     ELSE [f EXCEPT !.stamp = now, !.pc = "sv_set"])
    /\ UNCHANGED <<store, now, sinceZero, startedToday, checksToday, calls>>

\* await storage.local.set({ userTier: data.active ? data.tier : 'free',
\* tierExpiry: data.expiresAt || 0, lastVerified })
swVerifySubscription_set(t) ==
    /\ At(t, "sv_set")
    /\ LET data == tasks[t].data
       IN store' = [store EXCEPT
                       !.userTier = IF data.active THEN data.tier ELSE "free",
                       !.tierExpiry = data.expiresAt,
                       !.lastVerified = tasks[t].stamp]
    /\ Goto(t, [tasks[t] EXCEPT !.pc = "done"])
    /\ UNCHANGED <<now, sinceZero, startedToday, checksToday, calls>>

TierStep(t) ==
    \/ getTier_readTier(t)
    \/ getTier_readExpiry(t)
    \/ verifySubscription_email(t)
    \/ verifySubscription_sub(t)
    \/ verifySubscription_response(t)
    \/ verifySubscription_current(t)
    \/ setTier_tier(t)
    \/ setTier_verified(t)
    \/ setTier_expiry(t)
    \/ signOut_email(t)
    \/ signOut_sub(t)
    \/ signOut_expiry(t)
    \/ swVerifySubscription_read(t)
    \/ swVerifySubscription_response(t)
    \/ swVerifySubscription_set(t)

\* the entitlement fields the store can hold: any tier, with or without an
\* email, a subscription id and an expiry (a tier without identity is what a
\* signOut leaves when the popup is closed before its last write)
InitTier ==
    /\ now = 0
    /\ \E tier \in Tiers, email \in {"", "user"}, sub \in {"", "sub"},
          expiry \in ExpiryValues :
          store = [EmptyStore EXCEPT !.usageDate = toDateString(0),
                                     !.userTier = tier, !.userEmail = email,
                                     !.subscriptionId = sub,
                                     !.tierExpiry = expiry]
    /\ tasks = [t \in Workers |-> Idle]
    /\ sinceZero = [k \in Kinds |-> 0]
    /\ startedToday = [k \in Kinds |-> 0]
    /\ checksToday = 0
    /\ calls = [i \in PlaylistIds |-> <<>>]

\* one caller at a time resolves the tier, verifies or signs out, each call
\* completed before the next, while the clock advances
NextTier ==
    \/ getTier(1)
    \/ verifySubscription(1)
    \/ swVerifySubscription(1)
    \/ signOut(1)
    \/ handleClearData(1)
    \/ handleClearData_clear(1)
    \/ TierStep(1)
    \/ Return(1)
    \/ Tick(TierMaxNow)

SpecTier == InitTier /\ [][NextTier]_vars

\* a caller asks canPerform what it may do, of a store whose tier a
\* verification may have written or is about to write
NextCanAny ==
    \/ \E action \in {"check", "bulk", "api", "export"} : canPerform(1, action)
    \/ verifySubscription(1)
    \/ swVerifySubscription(1)
    \/ getTier_readTier(1)
    \/ getTier_readExpiry(1)
    \/ verifySubscription_email(1)
    \/ verifySubscription_sub(1)
    \/ verifySubscription_response(1)
    \/ verifySubscription_current(1)
    \/ setTier_tier(1)
    \/ setTier_verified(1)
    \/ setTier_expiry(1)
    \/ swVerifySubscription_read(1)
    \/ swVerifySubscription_response(1)
    \/ swVerifySubscription_set(1)
    \/ getUsage_readDate(1)
    \/ getUsage_setDate(1)
    \/ getUsage_setCount(1)
    \/ getUsage_readCount(1)
    \/ Return(1)
    \/ Tick(TierMaxNow)

SpecCanAny == InitTier /\ [][NextCanAny]_vars

\* the popup signs out (task 1) while a verification, the popup's or the
\* scheduled one of the service worker, is under way (task 2); no payment
\* event arrives
NextOut ==
    \/ signOut(1)
    \/ signOut_email(1)
    \/ signOut_sub(1)
    \/ signOut_expiry(1)
    \/ verifySubscription(2)
    \/ verifySubscription_email(2)
    \/ verifySubscription_sub(2)
    \/ verifySubscription_response(2)
    \/ verifySubscription_current(2)
    \/ swVerifySubscription(2)
    \/ swVerifySubscription_read(2)
    \/ swVerifySubscription_response(2)
    \/ swVerifySubscription_set(2)
    \/ \E t \in TaskIds : setTier_tier(t)
    \/ \E t \in TaskIds : setTier_verified(t)
    \/ \E t \in TaskIds : setTier_expiry(t)

SpecOut == InitTier /\ [][NextOut]_vars

-----------------------------------------------------------------------------
(* Payment success: the service worker's handlePaymentSuccess (message      *)
(* PAYMENT_SUCCESS), its SUBSCRIPTION_UPDATED broadcast, and                *)
(* Premium.handlePaymentSuccess behind Premium.setupSubscriptionListener    *)

\* the data of a payment-success event: { email, subscriptionId, tier,
\* expiresAt }, expiresAt 0 when it is absent or zero
PaymentEvents ==
    {[NoData EXCEPT !.status = "ok", !.active = TRUE, !.email = "buyer",
                    !.subscriptionId = "sub2", !.tier = tier, !.expiresAt = e] :
        tier \in ResponseTiers, e \in ExpiryValues}

\* the synchronous head of Premium.handlePaymentSuccess(data): the write of
\* the email is issued
handlePaymentSuccess_call(f, data) ==
    [f EXCEPT !.op = "paid", !.data = data, !.pc = "hp_email"]

\* await Storage.set(KEYS.EMAIL, data.email)
handlePaymentSuccess_email(t) ==
    /\ At(t, "hp_email")
    /\ store' = [store EXCEPT !.userEmail = tasks[t].data.email]
    /\ Goto(t, [tasks[t] EXCEPT !.pc = "hp_sub"])
    /\ UNCHANGED <<now, sinceZero, startedToday, checksToday, calls>>

\* await Storage.set(KEYS.SUBSCRIPTION_ID, data.subscriptionId);
\* await this.setTier(data.tier, data.expiresAt)
handlePaymentSuccess_sub(t) ==
    /\ At(t, "hp_sub")
    /\ store' = [store EXCEPT !.subscriptionId = tasks[t].data.subscriptionId]
    /\ Goto(t, setTier_call(tasks[t], tasks[t].data.tier,
                            tasks[t].data.expiresAt, "payment"))
    /\ UNCHANGED <<now, sinceZero, startedToday, checksToday, calls>>

\* the message PAYMENT_SUCCESS reaches the service worker, which runs its
\* handlePaymentSuccess(message.data): the write of the five keys is issued
swHandlePaymentSuccess(t, data) ==
    /\ tasks[t].op = "idle"
    /\ Goto(t, [Idle EXCEPT !.op = "payment", !.data = data,
                            !.before = Entitlement(store), !.stamp = now,
                            !.pc = "ps_set"])
    /\ UNCHANGED <<store, now, sinceZero, startedToday, checksToday, calls>>

\* await storage.local.set({ userEmail, subscriptionId, userTier, tierExpiry,
\* lastVerified }): an expiresAt of 0 is written, an absent one leaves the
\* key as it is; sendMessage({ type: 'SUBSCRIPTION_UPDATED', data })
swHandlePaymentSuccess_set(t) ==
    /\ At(t, "ps_set")
    /\ LET data == tasks[t].data
       IN \E expiry \in IF hasExpiry(data.expiresAt)
                        THEN {data.expiresAt}
                        ELSE {0, store.tierExpiry} :
             store' = [store EXCEPT !.userEmail = data.email,
                                    !.subscriptionId = data.subscriptionId,
                                    !.userTier = data.tier,
                                    !.tierExpiry = expiry,
                                    !.lastVerified = tasks[t].stamp]
    /\ Goto(t, [tasks[t] EXCEPT !.pc = "ps_notify"])
    /\ UNCHANGED <<now, sinceZero, startedToday, checksToday, calls>>

\* the broadcast: a page on which Premium.setupSubscriptionListener() was
\* called (the popup never calls it) runs
\* Premium.handlePaymentSuccess(message.data) in task u; with no such page
\* the rejection of sendMessage is swallowed; return { success: true }
swHandlePaymentSuccess_notify(t, u) ==
    /\ At(t, "ps_notify")
    /\ \E listening \in BOOLEAN :
          IF listening /\ tasks[u].op = "idle"
          THEN tasks' = [tasks EXCEPT
                            ![t] = [@ EXCEPT !.outcome = "heard", !.pc = "done"],
                            ![u] = handlePaymentSuccess_call(Idle, tasks[t].data)]
          ELSE Goto(t, [tasks[t] EXCEPT !.outcome = "unheard", !.pc = "done"])
    /\ UNCHANGED <<store, now, sinceZero, startedToday, checksToday, calls>>

\* payment-success events, one at a time: task 2 is the service worker's
\* handler, task 1 the page that listens for the broadcast; the sync endpoint
\* answers with nothing but what was uploaded
NextPay ==
    \/ \E data \in PaymentEvents :
          (tasks[1].op = "idle" /\ swHandlePaymentSuccess(2, data))
    \/ swHandlePaymentSuccess_set(2)
    \/ swHandlePaymentSuccess_notify(2, 1)
    \/ handlePaymentSuccess_email(1)
    \/ handlePaymentSuccess_sub(1)
    \/ setTier_tier(1)
    \/ setTier_verified(1)
    \/ setTier_expiry(1)
    \/ SyncStep(1, {})
    \/ (~InFlight(1) /\ Return(2))
    \/ (tasks[2].op = "idle" /\ Return(1))
    \/ Tick(TierMaxNow)

SpecPay == InitTier /\ [][NextPay]_vars

\* entitlement writers that overlap: task 1 is the popup, which verifies or
\* handles the broadcast; task 2 is the service worker, which re-verifies or
\* handles a payment-success event; each makes one call
NextEnt ==
    \/ verifySubscription(1)
    \/ swVerifySubscription(2)
    \/ \E data \in PaymentEvents : swHandlePaymentSuccess(2, data)
    \/ verifySubscription_email(1)
    \/ verifySubscription_sub(1)
    \/ verifySubscription_response(1)
    \/ verifySubscription_current(1)
    \/ setTier_tier(1)
    \/ setTier_verified(1)
    \/ setTier_expiry(1)
    \/ handlePaymentSuccess_email(1)
    \/ handlePaymentSuccess_sub(1)
    \/ SyncStep(1, {})
    \/ swVerifySubscription_read(2)
    \/ swVerifySubscription_response(2)
    \/ swVerifySubscription_set(2)
    \/ swHandlePaymentSuccess_set(2)
    \/ swHandlePaymentSuccess_notify(2, 1)

SpecEnt == InitTier /\ [][NextEnt]_vars

-----------------------------------------------------------------------------
(* SpotifyAPI.validateBatch.  A call frame holds playlistIds (ids), the     *)
(* concurrency (conc), the loop index i, results, and the batch in flight:  *)
(* one item per getPlaylist call of the batch.  Ghost fields: the position  *)
(* of an item in ids, the order in which the items of the batch completed,  *)
(* the outcome of the fetch of every position (fetched), the batches        *)
(* dispatched (chunkLog) and the pacing pauses that elapsed (pauses).       *)

\* the playlist identifiers of the lists validated
BatchIds == {"a", "b"}

NoId == ""

\* the lists validateBatch is called with
IdLists == UNION {[1 .. n -> BatchIds] : n \in 0 .. MaxBatchLen}

\* error.message of what getPlaylist throws
TokenError == "Failed to get access token"
FetchError == "Failed to fetch playlist"

\* { success: true, data: playlist }: the playlist is the one of the id asked
Success(id) == [success |-> TRUE, data |-> id, error |-> "", id |-> NoId]

\* { success: false, error: error.message, id }
Failure(message, id) ==
    [success |-> FALSE, data |-> NoId, error |-> message, id |-> id]

\* Array.prototype.slice(begin, end) of a list, begin and end counted from 0
slice(list, begin, end) == SubSeq(list, begin + 1, Min(end, Len(list)))

\* everything that is left in one batch
batchOf_rest(playlistIds, i, concurrency) ==
    slice(playlistIds, i, Len(playlistIds))

\* const batch = playlistIds.slice(i, i + concurrency)
batchOf(playlistIds, i, concurrency) == slice(playlistIds, i, i + concurrency)

\* the results in the order the fetches completed
batchResults_byCompletion(batch, completed) ==
    [k \in 1 .. Len(batch) |-> batch[completed[k]].result]

\* await Promise.all(batch.map(...)): the results in the order of the batch
batchResults(batch, completed) ==
    [k \in 1 .. Len(batch) |-> batch[k].result]

\* a pause after every batch
pauseNeeded_always(i, concurrency, length) == TRUE

\* if (i + concurrency < playlistIds.length)
pauseNeeded(i, concurrency, length) == i + concurrency < length

\* what the ghost fields keep of a call that goes on and on: the first
\* batches and pauses, one more than a list has identifiers
GhostCap == MaxBatchLen + 1

\* batch.map(async id => ...): every getPlaylist of the batch is called and
\* awaits its token
dispatch(f) ==
    LET batch == batchOf(f.ids, f.i, f.conc) IN
    [f EXCEPT !.batch = [j \in 1 .. Len(batch) |->
                            [id |-> batch[j], pos |-> f.i + j, pc |-> "token",
                             result |-> Failure("", NoId)]],
              !.completed = <<>>,
              !.chunkLog = IF Len(@) < GhostCap THEN Append(@, batch) ELSE @,
              !.pc = "vb_all"]

\* for (...; i < playlistIds.length; ...): the next batch, or return results
loop(f) == IF f.i < Len(f.ids) THEN dispatch(f) ELSE [f EXCEPT !.pc = "done"]

\* an item failure that rejects the whole call
onItemFailure_rethrow(f, j, message) ==
    [f EXCEPT !.outcome = "threw", !.pc = "done"]

\* catch (error) { return { success: false, error: error.message, id } }
onItemFailure(f, j, message) ==
    [f EXCEPT !.batch[j].pc = "done",
              !.batch[j].result = Failure(message, f.batch[j].id),
              !.completed = Append(@, j),
              !.fetched[f.batch[j].pos] = message]

\* the playlist fetches of a call that were sent and have not been answered
fetchesInFlight(f) == {j \in 1 .. Len(f.batch) : f.batch[j].pc = "fetch"}

\* a caller invokes validateBatch(playlistIds, concurrency)
validateBatch(t, playlistIds, concurrency) ==
    /\ tasks[t].op = "idle"
    /\ Goto(t, loop([Idle EXCEPT !.op = "validateBatch", !.ids = playlistIds,
                                 !.conc = concurrency,
                                 !.fetched = [p \in 1 .. Len(playlistIds) |-> ""]]))
    /\ UNCHANGED <<store, now, sinceZero, startedToday, checksToday, calls>>

\* getPlaylist of item j: const token = await this.getAccessToken(); with a
\* token the playlist request is sent, without one getPlaylist throws
validateBatch_token(t, j) ==
    /\ At(t, "vb_all")
    /\ j \in 1 .. Len(tasks[t].batch)
    /\ tasks[t].batch[j].pc = "token"
    /\ \E ok \in BOOLEAN :
          Goto(t, IF ok THEN [tasks[t] EXCEPT !.batch[j].pc = "fetch"]
                        ELSE onItemFailure(tasks[t], j, TokenError))
    /\ UNCHANGED <<store, now, sinceZero, startedToday, checksToday, calls>>

\* getPlaylist of item j: the playlist response; if (!response.ok) throw,
\* else return { success: true, data: playlist }
validateBatch_response(t, j) ==
    /\ At(t, "vb_all")
    /\ j \in 1 .. Len(tasks[t].batch)
    /\ tasks[t].batch[j].pc = "fetch"
    /\ \E ok \in BOOLEAN :
          LET f == tasks[t] IN
          Goto(t, IF ok
                  THEN [f EXCEPT !.batch[j].pc = "done",
                                 !.batch[j].result = Success(f.batch[j].id),
                                 !.completed = Append(@, j),
                                 !.fetched[f.batch[j].pos] = "ok"]
                  ELSE onItemFailure(f, j, FetchError))
    /\ UNCHANGED <<store, now, sinceZero, startedToday, checksToday, calls>>

\* Promise.all resolves when every item has its result:
\* results.push(...batchResults), then the pause or the next turn of the loop
validateBatch_all(t) ==
    /\ At(t, "vb_all")
    /\ \A j \in 1 .. Len(tasks[t].batch) : tasks[t].batch[j].pc = "done"
    /\ LET f == tasks[t]
           g == [f EXCEPT !.results = @ \o batchResults(f.batch, f.completed)]
       IN Goto(t, IF pauseNeeded(f.i, f.conc, Len(f.ids))
                  THEN [g EXCEPT !.pc = "vb_pause"]
                  ELSE loop([g EXCEPT !.i = @ + f.conc]))
    /\ UNCHANGED <<store, now, sinceZero, startedToday, checksToday, calls>>

\* await new Promise(resolve => setTimeout(resolve, 100)) has elapsed:
\* i += concurrency and the next turn of the loop
validateBatch_pause(t) ==
    /\ At(t, "vb_pause")
    /\ Goto(t, loop([tasks[t] EXCEPT !.pauses = Min(@ + 1, GhostCap),
                                     !.i = @ + tasks[t].conc]))
    /\ UNCHANGED <<store, now, sinceZero, startedToday, checksToday, calls>>

\* one call of validateBatch on any list and any concurrency from 1 up; the
\* items of a batch get their answers in any order
NextBatch ==
    \/ \E playlistIds \in IdLists, concurrency \in 1 .. MaxConcurrency :
          validateBatch(1, playlistIds, concurrency)
    \/ \E j \in 1 .. MaxBatchLen : validateBatch_token(1, j)
    \/ \E j \in 1 .. MaxBatchLen : validateBatch_response(1, j)
    \/ validateBatch_all(1)
    \/ validateBatch_pause(1)

SpecBatch == InitQuota /\ [][NextBatch]_vars

\* a step of a call that is under way: an answer arrives, Promise.all
\* resolves, the timer fires
BatchStep ==
    \/ \E j \in 1 .. MaxBatchLen : validateBatch_token(1, j)
    \/ \E j \in 1 .. MaxBatchLen : validateBatch_response(1, j)
    \/ validateBatch_all(1)
    \/ validateBatch_pause(1)

\* one call of validateBatch on any list and any concurrency from 0 up
NextBatchAny ==
    \/ \E playlistIds \in IdLists, concurrency \in 0 .. MaxConcurrency :
          validateBatch(1, playlistIds, concurrency)
    \/ BatchStep

\* every fetch is answered in the end, every promise that can resolve does,
\* every timer fires
SpecBatchAny == InitQuota /\ [][NextBatchAny]_vars /\ WF_vars(BatchStep)

-----------------------------------------------------------------------------
(* calculateBotScore of popup.js and of spotify-injector.js.  A playlist is *)
(* {followers, tracks, name, description, snapshot_id}: followers.total and *)
(* tracks.total (0 when absent), the name, the length of the description    *)
(* (0 when absent or empty).  A factor is {label, points}: the label pushed *)
(* and the amount added to score.                                           *)

\* the names of the playlists assessed, and what
\* genericNames.some(n => nameLower.includes(n)) gives for each
PlaylistNames == {"Chill Vibes", "LOFI study beats", "Road Trip", "Top Hits"}

hasGenericName(name) == name \in {"Chill Vibes", "LOFI study beats"}

\* the playlists assessed: follower and track totals on both sides of every
\* threshold of the factors
FollowerValues ==
    {0, 9, 10, 999, 1000, 1001, 2000, 10000, 10001, 11000, 50000, 50001,
     51000, 60000}
TrackValues == {0, 1, 5, 100, 6000}
DescriptionLengths == {0, 9, 10}

ScoredPlaylists ==
    [followers : FollowerValues, tracks : TrackValues, name : PlaylistNames,
     description : DescriptionLengths, snapshot_id : {"snap"}]

\* a date read from the snapshot id: thirty days less one instant before
\* time 0
parseSnapshotDate_dated(snapshotId) == 1 - 30 * DayLen

\* popup.js parseSnapshotDate: return null
parseSnapshotDate(snapshotId) == NoDate

\* if (tracks > 0) { ratio = followers / tracks; ratio < 10, ratio > 10000 }
ratioFactor(followers, tracks) ==
    IF tracks > 0 /\ followers < 10 * tracks
    THEN <<[label |-> "Low follower ratio", points |-> 15]>>
    ELSE IF tracks > 0 /\ followers > 10000 * tracks
    THEN <<[label |-> "Suspiciously high ratio", points |-> 25]>>
    ELSE <<>>

\* if (snapshotDate) { daysSinceCreation < 30 && followers > 10000 }
newPlaylistFactor(snapshotDate, followers, t) ==
    IF snapshotDate # NoDate /\ snapshotDate # 0
          /\ (t - snapshotDate) \div DayLen < 30 /\ followers > 10000
    THEN <<[label |-> "New playlist, high followers", points |-> 30]>>
    ELSE <<>>

\* genericNames.some(n => nameLower.includes(n)) && followers > 50000
genericNameFactor(name, followers) ==
    IF hasGenericName(name) /\ followers > 50000
    THEN <<[label |-> "Generic name pattern", points |-> 10]>>
    ELSE <<>>

\* !playlist.description || playlist.description.length < 10
descriptionFactor(description) ==
    IF description = 0 \/ description < 10
    THEN <<[label |-> "No description", points |-> 10]>>
    ELSE <<>>

\* followers > 1000 && followers % 1000 === 0
roundFactor(followers) ==
    IF followers > 1000 /\ followers % 1000 = 0
    THEN <<[label |-> "Round follower count", points |-> 15]>>
    ELSE <<>>

\* the score accumulated over the factors pushed
RECURSIVE scoreOf(_)
scoreOf(factors) ==
    IF factors = <<>> THEN 0
    ELSE Head(factors).points + scoreOf(Tail(factors))

\* a level that is high only above 50
levelOf_above(score) ==
    IF score > 50 THEN "high" ELSE IF score >= 25 THEN "medium" ELSE "low"

\* let level = 'low'; if (score >= 50) level = 'high';
\* else if (score >= 25) level = 'medium'
levelOf(score) ==
    IF score >= 50 THEN "high" ELSE IF score >= 25 THEN "medium" ELSE "low"

\* return { score: Math.min(score, 100), level, factors }, the factors by
\* their labels, or the one positive factor when none was pushed
botData(factors, noFlags) ==
    [score |-> Min(scoreOf(factors), 100),
     level |-> levelOf(scoreOf(factors)),
     factors |-> IF Len(factors) = 0 THEN <<noFlags>>
                 ELSE [k \in 1 .. Len(factors) |-> factors[k].label]]

\* popup.js calculateBotScore(playlist) at time t
calculateBotScore(playlist, t) ==
    botData(ratioFactor(playlist.followers, playlist.tracks)
               \o newPlaylistFactor(parseSnapshotDate(playlist.snapshot_id),
                                    playlist.followers, t)
               \o genericNameFactor(playlist.name, playlist.followers)
               \o descriptionFactor(playlist.description)
               \o roundFactor(playlist.followers),
            "No red flags detected")

\* spotify-injector.js calculateBotScore(playlist)
injectorCalculateBotScore(playlist) ==
    botData(ratioFactor(playlist.followers, playlist.tracks)
               \o descriptionFactor(playlist.description)
               \o roundFactor(playlist.followers)
               \o genericNameFactor(playlist.name, playlist.followers),
            "No red flags")

\* the popup assesses a playlist it has fetched
popupBotScore(t, playlist) ==
    /\ tasks[t].op = "idle"
    /\ Goto(t, [Idle EXCEPT !.op = "popupScore", !.playlist = playlist,
                            !.began = now,
                            !.botData = calculateBotScore(playlist, now),
                            !.pc = "done"])
    /\ UNCHANGED <<store, now, sinceZero, startedToday, checksToday, calls>>

\* the content script assesses the playlist of the page
injectorBotScore(t, playlist) ==
    /\ tasks[t].op = "idle"
    /\ Goto(t, [Idle EXCEPT !.op = "injectorScore", !.playlist = playlist,
                            !.began = now,
                            !.botData = injectorCalculateBotScore(playlist),
                            !.pc = "done"])
    /\ UNCHANGED <<store, now, sinceZero, startedToday, checksToday, calls>>

\* playlists are assessed one after another, in the popup and on the page
NextScore ==
    \/ \E playlist \in ScoredPlaylists : popupBotScore(1, playlist)
    \/ \E playlist \in ScoredPlaylists : injectorBotScore(1, playlist)
    \/ Return(1)

SpecScore == InitQuota /\ [][NextScore]_vars

\* the popup assesses a playlist and later, the clock and the store having
\* moved, assesses the same snapshot again
NextPure ==
    \/ \E playlist \in ScoredPlaylists : popupBotScore(1, playlist)
    \/ (At(1, "done") /\ popupBotScore(2, tasks[1].playlist))
    \/ handleDailyReset(3)
    \/ handleDailyReset_set(3)
    \/ Tick(PureMaxNow)

SpecPure == InitQuota /\ [][NextPure]_vars

\* the popup assesses a playlist and the content script assesses the same
\* playlist on its page
NextBoth ==
    \/ \E playlist \in ScoredPlaylists : popupBotScore(1, playlist)
    \/ (At(1, "done") /\ injectorBotScore(2, tasks[1].playlist))
    \/ Tick(PureMaxNow)

SpecBoth == InitQuota /\ [][NextBoth]_vars

-----------------------------------------------------------------------------
(* SpotifyAPI.extractPlaylistId and the texts a single check is run on      *)

\* the texts of the input field after trim()
Urls ==
    {"", "https://open.spotify.com/playlist/37i9dQZF1DXcBWIGoYBM5M",
     "https://open.spotify.com/playlist/37i9dQZF1DXcBWIGoYBM5M?si=1",
     "spotify:playlist:37i9dQZF1DXcBWIGoYBM5M", "37i9dQZF1DXcBWIGoYBM5M",
     "https://open.spotify.com/embed/playlist/37i9dQZF1DXcBWIGoYBM5M",
     "https://open.spotify.com/album/37i9dQZF1DXcBWIGoYBM5M",
     "https://example.com/playlist", "37i9dQZF1DX"}

\* extractPlaylistId(url): the first group of the first pattern that
\* matches, null ("") when the url is empty or no pattern matches
extractPlaylistId(url) ==
    IF url \in {"https://open.spotify.com/playlist/37i9dQZF1DXcBWIGoYBM5M",
                "https://open.spotify.com/playlist/37i9dQZF1DXcBWIGoYBM5M?si=1",
                "spotify:playlist:37i9dQZF1DXcBWIGoYBM5M",
                "37i9dQZF1DXcBWIGoYBM5M",
                "https://open.spotify.com/embed/playlist/37i9dQZF1DXcBWIGoYBM5M"}
    THEN "37i9dQZF1DXcBWIGoYBM5M"
    ELSE NoId

\* if (!url) ...; if (!playlistId) ...: the text goes on to a check
acceptsUrl(url) == url # "" /\ extractPlaylistId(url) # NoId

\* single checks run one after another on any text, the clock advancing
\* between them
NextCheckSeq ==
    \/ \E url \in Urls : handleSingleCheck(1, acceptsUrl(url))
    \/ CheckStep(1)
    \/ QuotaStep(1)
    \/ (AllIdle /\ Tick(CheckMaxNow))

SpecCheckSeq == InitCheck /\ [][NextCheckSeq]_vars

-----------------------------------------------------------------------------
(* PROPERTIES *)

IsUsageCall(t) == tasks[t].op \in {"getUsage", "increment"}

\* C1: within one calendar day, a getUsage call returns the number of
\* increment calls made since the counter was zeroed, and a getUsage call that
\* finds the anchor day equal to today writes nothing to the store.
C1_UsageCountsIncrements ==
    /\ [](\A t \in TaskIds :
            (/\ tasks[t].op = "getUsage"
             /\ At(t, "done")
             /\ tasks[t].today = toDateString(now))
            => tasks[t].ret = sinceZero[tasks[t].kind])
    /\ [][\A t \in TaskIds :
            (/\ tasks[t].op = "getUsage"
             /\ tasks[t].usageDate = tasks[t].today
             /\ tasks'[t] # tasks[t])
            => store' = store]_vars

\* a same-day getUsage has returned 2 or more after as many increments
C1_Witness ==
    \E t \in TaskIds :
        /\ tasks[t].op = "getUsage"
        /\ At(t, "done")
        /\ tasks[t].usageDate = tasks[t].today
        /\ tasks[t].today = toDateString(now)
        /\ tasks[t].ret >= 2
        /\ tasks[t].ret = sinceZero[tasks[t].kind]

\* C2: a getUsage or increment call that finds an anchor day other than
\* today returns 0 (getUsage) or 1 (increment), and when it returns the stored
\* anchor day is its today and the stored count is the value it returned.
C2_RolloverZeroes ==
    \A t \in TaskIds :
        (/\ IsUsageCall(t)
         /\ At(t, "done")
         /\ tasks[t].usageDate # tasks[t].today)
        => /\ tasks[t].ret = (IF tasks[t].op = "getUsage" THEN 0 ELSE 1)
           /\ store[DateKey(tasks[t].kind)] = tasks[t].today
           /\ store[CountKey(tasks[t].kind)] = tasks[t].ret

\* an increment made on the day after the anchor day has returned 1
C2_Witness ==
    \E t \in TaskIds :
        /\ tasks[t].op = "increment"
        /\ At(t, "done")
        /\ tasks[t].usageDate # NoDate
        /\ tasks[t].usageDate < tasks[t].today
        /\ tasks[t].ret = 1

\* C3: two increment calls of one kind made on the same day, neither of which
\* had to roll the day over, return different values and leave the stored count
\* equal to the number of increments made since the counter was zeroed.
C3_IncrementsAtomic ==
    \A t1, t2 \in TaskIds :
        (/\ t1 # t2
         /\ tasks[t1].op = "increment" /\ tasks[t2].op = "increment"
         /\ At(t1, "done") /\ At(t2, "done")
         /\ tasks[t1].kind = tasks[t2].kind
         /\ tasks[t1].usageDate = tasks[t1].today
         /\ tasks[t2].usageDate = tasks[t2].today
         /\ tasks[t1].today = toDateString(now)
         /\ tasks[t2].today = toDateString(now))
        => /\ tasks[t1].ret # tasks[t2].ret
           /\ store[CountKey(tasks[t1].kind)] = sinceZero[tasks[t1].kind]

\* C4: a getUsage or increment call made today returns no more than the
\* number of increment calls made today, that is, nothing counted on an
\* earlier day is in the value it returns.
C4_NoStaleCount ==
    \A t \in TaskIds :
        (/\ IsUsageCall(t)
         /\ At(t, "done")
         /\ tasks[t].today = toDateString(now))
        => tasks[t].ret <= startedToday[tasks[t].kind]

\* C5: while the tier is free, no more than 5 single checks are given their
\* playlist in one calendar day, and the stored interactive count is never
\* above 5.
C5_FreeTierDailyCap ==
    store.userTier = "free" =>
        /\ checksToday <= FREE_DAILY_CHECKS
        /\ store.dailyUsage <= FREE_DAILY_CHECKS

\* the task of the sequential specifications is between two calls
Settled == tasks[1].pc \in {"idle", "done"}

\* the newest min(Len(log), 30) entries of a log of calls, newest first
NewestFirst(log) ==
    [i \in 1 .. Min(Len(log), 30) |-> log[Len(log) - i + 1]]

\* C6: after k sequential track calls on an identifier its history holds the
\* (followers, timestamp) pairs of the latest min(k, 30) calls, the latest
\* call first.
C6_HistoryNewestThirty ==
    Settled =>
        \A id \in {1, 2} :
            getPlaylistHistory(store.trackedPlaylists, id) = NewestFirst(calls[id])

\* 31 calls were made on playlist 1: 30 entries are left, the first call's
\* entry is not among them
C6_Witness ==
    /\ At(1, "done")
    /\ Len(calls[1]) = 31
    /\ Len(getPlaylistHistory(store.trackedPlaylists, 1)) = 30
    /\ \A i \in 1 .. 30 :
          getPlaylistHistory(store.trackedPlaylists, 1)[i] # calls[1][1]

\* C7: the collection never holds more than 50 entries and no two of its
\* entries share an identifier.
C7_CollectionBounded ==
    LET tracked == store.trackedPlaylists
    IN /\ Len(tracked) <= 50
       /\ \A i, j \in 1 .. Len(tracked) : tracked[i].id = tracked[j].id => i = j

\* the 51st identifier was tracked and the collection holds 50 entries
C7_Witness ==
    /\ At(1, "done")
    /\ tasks[1].op = "track"
    /\ tasks[1].arg.id = 51
    /\ Len(store.trackedPlaylists) = 50
    /\ findIndex(store.trackedPlaylists, 51) = 1

\* a step that drops entry i of a full collection while it adds another
Evicts(i) ==
    /\ Len(store.trackedPlaylists) = 50
    /\ Len(store.trackedPlaylists') = 50
    /\ i \in 1 .. 50
    /\ store.trackedPlaylists[i].id \notin IdSet(store.trackedPlaylists')

\* C8 as claimed: the entry evicted on overflow is the one whose latest track
\* call is older than the latest track call of every other entry.
C8_EvictsLeastRecentlyUpdated ==
    [][\A i \in 1 .. 50 :
          Evicts(i) =>
              \A j \in 1 .. 50 :
                  j # i => store.trackedPlaylists[i].timestamp
                              < store.trackedPlaylists[j].timestamp]_vars

\* C8 as amended: the entry evicted on overflow is the last of the collection,
\* the one that was added before every other entry was added, whether or not
\* it was tracked again since.
C8_EvictsLeastRecentlyAdded ==
    [][\A i \in 1 .. 50 :
          Evicts(i) =>
              /\ i = 50
              /\ \A j \in 1 .. 49 :
                    calls[store.trackedPlaylists[i].id][1].timestamp
                        < calls[store.trackedPlaylists[j].id][1].timestamp]_vars

\* playlist 51 was added to a full collection in which an entry had been
\* tracked again, and playlist 1 is gone
C8_Witness ==
    /\ At(1, "done")
    /\ tasks[1].op = "track"
    /\ tasks[1].arg.id = 51
    /\ Len(store.trackedPlaylists) = 50
    /\ 1 \notin IdSet(store.trackedPlaylists)
    /\ \E i \in 1 .. 50 : Len(store.trackedPlaylists[i].history) >= 2

\* C9: when two track calls on one identifier have both completed, the
\* history of that playlist holds the entry of each of them.
C9_OverlappingTracksBothKept ==
    (/\ At(1, "done") /\ At(2, "done")
     /\ tasks[1].op = "track" /\ tasks[2].op = "track"
     /\ tasks[1].arg.id = tasks[2].arg.id)
    => LET history == getPlaylistHistory(store.trackedPlaylists, tasks[1].arg.id)
       IN \A t \in TaskIds :
             \E i \in 1 .. Len(history) : history[i] = HistoryEntry(tasks[t].arg)

\* C10: when a track or untrack call begun while the refresh or the cloud
\* sync was in flight has completed and the background task has finished, the
\* tracked playlist is in the stored collection and the untracked one is not.
C10_ForegroundSurvivesBackground ==
    (At(1, "done") /\ At(2, "done"))
    => /\ tasks[1].op = "track"
            => tasks[1].arg.id \in IdSet(store.trackedPlaylists)
       /\ tasks[1].op = "untrack"
            => tasks[1].arg.id \notin IdSet(store.trackedPlaylists)

\* C11: when the sync request fails (the request throws, the status is not
\* OK, or the body does not parse) syncWithCloud returns and the stored
\* collection is the one it read when it was called.
C11_FailedSyncLeavesCollection ==
    (tasks[1].op = "sync" /\ tasks[1].outcome = "failed")
    => /\ At(1, "done")
       /\ store.trackedPlaylists = tasks[1].snap

\* a sync of a collection of two playlists has failed
C11_Witness ==
    /\ tasks[1].op = "sync"
    /\ At(1, "done")
    /\ tasks[1].outcome = "failed"
    /\ Len(tasks[1].snap) = 2
    /\ store.trackedPlaylists = tasks[1].snap

\* C12: when a sync whose answer carried a trackedPlaylists array has
\* returned, the stored collection is that array; when the answer was OK and
\* carried none, the stored collection is the one that was uploaded.
C12_SyncReplacesCollection ==
    (tasks[1].op = "sync" /\ At(1, "done"))
    => /\ tasks[1].outcome = "replace"
            => store.trackedPlaylists = tasks[1].updated
       /\ tasks[1].outcome = "none"
            => store.trackedPlaylists = tasks[1].snap

\* a local collection of two playlists was replaced by a remote collection
\* that holds neither of them
C12_Witness ==
    /\ tasks[1].op = "sync"
    /\ At(1, "done")
    /\ tasks[1].outcome = "replace"
    /\ Len(tasks[1].snap) = 2
    /\ store.trackedPlaylists = RemoteCollection
    /\ IdSet(tasks[1].snap) \cap IdSet(store.trackedPlaylists) = {}

\* the call of task 1 had, when it began, a paid tier on record
HadPaidTier == tasks[1].before.tier # "free"

\* the call of task 1 had, when it began, an email or a subscription id on
\* record
HadIdentity ==
    tasks[1].before.email # "" \/ tasks[1].before.subscriptionId # ""

\* C13: a getTier call that reads a free tier, or a paid tier whose expiry is
\* unset or has not elapsed, returns the tier it read at once, having sent no
\* verification request, and none of its steps writes to the store.
C13_FastPathReturnsCached ==
    [][(tasks[1].op = "getTier" /\ tasks'[1] # tasks[1])
       => /\ At(1, "gt_tier") => store' = store
          /\ (/\ At(1, "gt_expiry")
              /\ \/ tasks[1].cached = "free"
                 \/ store.tierExpiry = 0
                 \/ now <= store.tierExpiry)
             => /\ tasks'[1].pc = "done"
                /\ tasks'[1].tier = tasks[1].cached
                /\ tasks'[1].attempts = 0
                /\ store' = store]_vars

\* getTier has returned a paid tier whose expiry is unset, after some time
\* had passed, without a verification request
C13_Witness ==
    /\ tasks[1].op = "getTier"
    /\ At(1, "done")
    /\ tasks[1].tier = "premium"
    /\ tasks[1].expiry = 0
    /\ tasks[1].began >= 1
    /\ tasks[1].attempts = 0
    /\ Entitlement(store) = tasks[1].before

\* C14: a getTier call begun with a paid tier, an identity and an elapsed
\* expiry on record has sent exactly one verification request when it
\* returns; if the request failed, it returns the tier that was on record and
\* that tier is still the stored one.
C14_ExpiredTierVerifiedOnce ==
    (/\ tasks[1].op = "getTier"
     /\ At(1, "done")
     /\ HadPaidTier /\ HadIdentity
     /\ tasks[1].before.expiry > 0
     /\ tasks[1].began > tasks[1].before.expiry)
    => /\ tasks[1].attempts = 1
       /\ tasks[1].data.status # "ok"
            => /\ tasks[1].tier = tasks[1].before.tier
               /\ store.userTier = tasks[1].before.tier

\* getTier has returned premium after the verification of an elapsed premium
\* subscription failed
C14_Witness ==
    /\ tasks[1].op = "getTier"
    /\ At(1, "done")
    /\ tasks[1].before.tier = "premium"
    /\ HadIdentity
    /\ tasks[1].before.expiry > 0
    /\ tasks[1].began > tasks[1].before.expiry
    /\ tasks[1].attempts = 1
    /\ tasks[1].data.status = "error"
    /\ tasks[1].tier = "premium"
    /\ store.userTier = "premium"

\* C15: a verifySubscription call begun with neither an email nor a
\* subscription id on record returns free, has sent no verification request,
\* and leaves free as the stored tier.
C15_NoIdentityForcesFree ==
    (/\ tasks[1].op = "verify"
     /\ At(1, "done")
     /\ ~HadIdentity)
    => /\ tasks[1].tier = "free"
       /\ store.userTier = "free"
       /\ tasks[1].attempts = 0

\* verifySubscription has returned free for a store that held the pro tier
\* and no identity
C15_Witness ==
    /\ tasks[1].op = "verify"
    /\ At(1, "done")
    /\ ~HadIdentity
    /\ tasks[1].before.tier = "pro"
    /\ tasks[1].tier = "free"
    /\ store.userTier = "free"

\* C16: when verifySubscription returns after an answer with active = true,
\* the stored tier is the answer's tier, the stored expiry is the answer's
\* expiry (unset when the answer has none or zero), and the answer's tier is
\* returned.
C16_ActiveAnswerStored ==
    (/\ tasks[1].op = "verify"
     /\ At(1, "done")
     /\ tasks[1].data.status = "ok"
     /\ tasks[1].data.active)
    => /\ store.userTier = tasks[1].data.tier
       /\ store.tierExpiry = tasks[1].data.expiresAt
       /\ tasks[1].tier = tasks[1].data.tier

\* C17: when verifySubscription returns after an answer with active = false,
\* the stored tier is free, no expiry is stored, and free is returned.
C17_InactiveAnswerClears ==
    (/\ tasks[1].op = "verify"
     /\ At(1, "done")
     /\ tasks[1].data.status = "ok"
     /\ ~tasks[1].data.active)
    => /\ store.userTier = "free"
       /\ store.tierExpiry = 0
       /\ tasks[1].tier = "free"

\* C18: when a verification (of the popup or of the service worker) returns
\* after its request failed, the stored tier, expiry, email and subscription
\* id are what they were when it began, and the popup's verifySubscription
\* returns the stored tier.
C18_FailedVerifyKeepsEntitlement ==
    (/\ tasks[1].op \in {"verify", "swVerify"}
     /\ At(1, "done")
     /\ tasks[1].attempts = 1
     /\ tasks[1].data.status # "ok")
    => /\ Entitlement(store) = tasks[1].before
       /\ tasks[1].op = "verify" => tasks[1].tier = store.userTier

\* the popup's verifySubscription has returned pro after a non-OK answer
C18_Witness ==
    /\ tasks[1].op = "verify"
    /\ At(1, "done")
    /\ tasks[1].attempts = 1
    /\ tasks[1].data.status = "bad"
    /\ tasks[1].tier = "pro"
    /\ Entitlement(store) = tasks[1].before

\* C19: when signOut has returned the store holds the free tier and no email,
\* subscription id or expiry; a getTier call begun on such a store returns
\* free and sends no verification request.
C19_SignOutClears ==
    /\ (tasks[1].op = "signOut" /\ At(1, "done"))
          => Entitlement(store) = NoEntitlement
    /\ (/\ tasks[1].op = "getTier" /\ At(1, "done")
        /\ tasks[1].before = NoEntitlement)
          => (tasks[1].tier = "free" /\ tasks[1].attempts = 0)

\* signOut has returned for a store that held the pro tier, an email, a
\* subscription id and an expiry
C19_Witness ==
    /\ tasks[1].op = "signOut"
    /\ At(1, "done")
    /\ tasks[1].before.tier = "pro"
    /\ tasks[1].before.email # ""
    /\ tasks[1].before.subscriptionId # ""
    /\ tasks[1].before.expiry > 0
    /\ Entitlement(store) = NoEntitlement

\* C20: when a payment-success event has been handled (the service worker's
\* handler has returned and no page is still handling the broadcast) the
\* store holds the event's email, subscription id, tier and expiry, and one
\* cloud sync was sent, its userId the event's email; a sync request of the
\* event is out only while the store holds the event's identity and tier.
C20_PaymentStoredThenSynced ==
    LET data == tasks[2].data
    IN /\ (tasks[2].op = "payment" /\ At(2, "done") /\ ~InFlight(1))
          => /\ store.userEmail = data.email
             /\ store.subscriptionId = data.subscriptionId
             /\ store.userTier = data.tier
             /\ store.tierExpiry = data.expiresAt
             /\ tasks[1].op = "paid"
             /\ tasks[1].uploads = 1
             /\ tasks[1].userId = data.email
       /\ (tasks[1].op = "paid" /\ At(1, "sc_post"))
          => /\ store.userEmail = tasks[1].data.email
             /\ store.subscriptionId = tasks[1].data.subscriptionId
             /\ store.userTier = tasks[1].data.tier

\* the call of task t has returned after writing a tier and an expiry: a
\* verification with an answer, or the handling of a payment-success event,
\* in the popup only with an expiry that is set
WroteBoth(t) ==
    /\ tasks[t].op \in {"verify", "swVerify", "payment", "paid"}
    /\ At(t, "done")
    /\ tasks[t].data.status = "ok"
    /\ tasks[t].op = "swVerify"
          \/ (tasks[t].data.active /\ tasks[t].data.expiresAt # 0)

\* the tier and the expiry that call wrote
Wrote(t) ==
    [tier |-> IF tasks[t].data.active THEN tasks[t].data.tier ELSE "free",
     expiry |-> tasks[t].data.expiresAt]

\* C21: when two entitlement writers that overlapped have both returned, the
\* stored tier and the stored expiry are the tier and the expiry one of the
\* two wrote.
C21_TierAndExpiryFromOneWriter ==
    (WroteBoth(1) /\ WroteBoth(2))
    => \E t \in TaskIds :
          /\ store.userTier = Wrote(t).tier
          /\ store.tierExpiry = Wrote(t).expiry

\* C22: in every reachable state the stored tier is one of free, premium and
\* pro, whatever the verification endpoint answers and whatever a payment
\* event carries.
C22_StoredTierKnown == storedTier(store) \in Tiers

\* a call of canPerform(action) that has returned its answer
Answered(t, action) ==
    /\ tasks[t].op = "canPerform"
    /\ tasks[t].action = action
    /\ At(t, "done")
    /\ tasks[t].outcome # "threw"

\* C23: canPerform('check') answers allowed with unlimited remaining for the
\* premium and pro tiers whatever the interactive count, and for the free
\* tier answers allowed exactly when today's interactive count is below 5,
\* with remaining the larger of 0 and 5 less the count.
C23_CheckAllowance ==
    \A t \in TaskIds :
        Answered(t, "check") =>
            LET f == tasks[t]
                count == sinceZero["interactive"]
            IN /\ f.tier \in {"premium", "pro"}
                    => f.allowed /\ f.remaining = Infinity
               /\ f.tier = "free"
                    => /\ f.allowed <=> count < 5
                       /\ f.remaining = Max(0, 5 - count)

\* a free user past the limit is refused with nothing remaining
C23_Witness ==
    /\ Answered(1, "check")
    /\ tasks[1].tier = "free"
    /\ sinceZero["interactive"] = 6
    /\ ~tasks[1].allowed
    /\ tasks[1].remaining = 0

\* C24: canPerform('api') answers not allowed with 0 remaining for the free
\* and premium tiers, and for the pro tier answers allowed exactly when
\* today's API count is below 100, with remaining the larger of 0 and 100 less
\* the count, whatever the interactive count.
C24_ApiAllowance ==
    \A t \in TaskIds :
        Answered(t, "api") =>
            LET f == tasks[t]
                count == sinceZero["api"]
            IN /\ f.tier \in {"free", "premium"}
                    => ~f.allowed /\ f.remaining = 0
               /\ f.tier = "pro"
                    => /\ f.allowed <=> count < 100
                       /\ f.remaining = Max(0, 100 - count)

\* a pro user with 3 interactive checks and 99 API requests today has one
\* request remaining
C24_Witness ==
    /\ Answered(1, "api")
    /\ tasks[1].tier = "pro"
    /\ sinceZero["interactive"] = 3
    /\ sinceZero["api"] = 99
    /\ tasks[1].allowed
    /\ tasks[1].remaining = 1

\* the kind a counter operation is not about
OtherKind(kind) == IF kind = "interactive" THEN "api" ELSE "interactive"

\* a step leaves the count and the anchor day of a kind as they are
KeepsCounter(kind) ==
    /\ store'[CountKey(kind)] = store[CountKey(kind)]
    /\ store'[DateKey(kind)] = store[DateKey(kind)]

\* C25: a step of getUsage or increment on one kind, its lazy rollover
\* included, leaves the stored count and anchor day of the other kind
\* unchanged, and every step of the scheduled daily reset, which is about the
\* interactive counter, the landing of its write included, leaves the count
\* and the anchor day of the API counter unchanged.
C25_CountersIndependent ==
    [][/\ \A t \in Workers :
             (tasks'[t] # tasks[t] /\ tasks[t].op \in {"getUsage", "increment"})
             => KeepsCounter(OtherKind(tasks[t].kind))
       /\ \A t \in Workers :
             (tasks'[t] # tasks[t] /\ tasks[t].op = "dailyReset")
             => KeepsCounter("api")]_vars

\* nothing was cleared (the tier of the install is on record), an interactive
\* check was counted today and two API requests were: the scheduled reset has
\* zeroed the interactive count, and the API counter still holds today's two
C25_Witness ==
    /\ AllIdle
    /\ store.userTier = "free"
    /\ startedToday["interactive"] >= 1
    /\ sinceZero["interactive"] = 0
    /\ store.dailyUsage = 0
    /\ store.usageDate = toDateString(now)
    /\ sinceZero["api"] = 2
    /\ store.apiDailyUsage = 2
    /\ store.apiUsageDate = toDateString(now)

\* a call of validateBatch that has returned or failed
BatchDone(t) == tasks[t].op = "validateBatch" /\ At(t, "done")

\* C26: for a list of n ids and a concurrency c of 1 or more, validateBatch
\* dispatches exactly ceil(n/c) chunks, the k-th being the k-th run of c
\* consecutive ids (fewer in the last), and returns n results, the i-th being
\* the outcome of the fetch of the i-th id, whatever the order in which the
\* fetches of a chunk completed.
C26_ChunksAndOrder ==
    \A t \in TaskIds :
        BatchDone(t) =>
            LET f == tasks[t]
                n == Len(f.ids)
                c == f.conc
            IN /\ Len(f.chunkLog) = (n + c - 1) \div c
               /\ \A k \in 1 .. Len(f.chunkLog) :
                     f.chunkLog[k] = SubSeq(f.ids, (k - 1) * c + 1, Min(k * c, n))
               /\ Len(f.results) = n
               /\ \A p \in 1 .. Min(n, Len(f.results)) :
                     /\ f.results[p].success <=> f.fetched[p] = "ok"
                     /\ IF f.results[p].success
                        THEN f.results[p].data = f.ids[p]
                        ELSE f.results[p].id = f.ids[p]

\* four ids validated two at a time: two chunks, the second fetch of the
\* last chunk completed before the first, and the results are in input order
C26_Witness ==
    /\ BatchDone(1)
    /\ tasks[1].ids = <<"a", "b", "b", "a">>
    /\ tasks[1].conc = 2
    /\ tasks[1].chunkLog = << <<"a", "b">>, <<"b", "a">> >>
    /\ tasks[1].completed = <<2, 1>>
    /\ tasks[1].fetched = <<"ok", FetchError, "ok", "ok">>
    /\ tasks[1].results =
          <<Success("a"), Failure(FetchError, "b"), Success("b"), Success("a")>>

\* C27: a fetch that fails gives the result {success: false, error, id} at
\* the place of its own id only: every id of the list is fetched, every fetch
\* that succeeds gives its success result, and the call never fails.
C27_FailureIsolated ==
    \A t \in TaskIds :
        /\ tasks[t].op = "validateBatch" => tasks[t].outcome # "threw"
        /\ BatchDone(t) =>
              LET f == tasks[t] IN
              /\ Len(f.results) = Len(f.ids)
              /\ \A p \in 1 .. Min(Len(f.ids), Len(f.results)) :
                    /\ f.fetched[p] # ""
                    /\ f.results[p] = IF f.fetched[p] = "ok"
                                      THEN Success(f.ids[p])
                                      ELSE Failure(f.fetched[p], f.ids[p])

\* the first id fails for want of a token; its sibling in the chunk and the
\* ids of the later chunk have their success results
C27_Witness ==
    /\ BatchDone(1)
    /\ tasks[1].conc = 2
    /\ tasks[1].results =
          <<Failure(TokenError, "a"), Success("b"), Success("a")>>

\* C28: at every moment of a call validateBatch(ids, c) at most c of its
\* playlist fetches are in flight.
C28_InFlightCapped ==
    \A t \in TaskIds :
        tasks[t].op = "validateBatch"
        => Cardinality(fetchesInFlight(tasks[t])) <= tasks[t].conc

\* two fetches in flight under concurrency 2 while two more ids wait
C28_Witness ==
    /\ tasks[1].op = "validateBatch"
    /\ tasks[1].conc = 2
    /\ Len(tasks[1].ids) = 4
    /\ tasks[1].i = 0
    /\ Cardinality(fetchesInFlight(tasks[1])) = 2

\* C29: a chunk after the first is dispatched only when every fetch of the
\* chunk before it has completed and one more pacing pause has elapsed, so
\* the pauses elapsed are always one fewer than the chunks dispatched: none
\* for an empty or single-chunk list, none after the last chunk.
C29_ChunksPaced ==
    [][\A t \in TaskIds :
          LET f == tasks[t]
              g == tasks'[t]
          IN g.op = "validateBatch" =>
                /\ g.pauses = Max(0, Len(g.chunkLog) - 1)
                /\ (f.op = "validateBatch" /\ Len(g.chunkLog) # Len(f.chunkLog))
                   => /\ Len(g.chunkLog) = Len(f.chunkLog) + 1
                      /\ \A j \in 1 .. Len(f.batch) : f.batch[j].pc = "done"
                      /\ Len(f.results) = Min(Len(f.chunkLog) * f.conc, Len(f.ids))
                      /\ f.pc = "vb_pause"
                      /\ g.pauses = f.pauses + 1]_vars

\* a call on four ids, three at a time, has returned after two chunks and one
\* pause
C29_Witness ==
    /\ BatchDone(1)
    /\ Len(tasks[1].ids) = 4
    /\ tasks[1].conc = 3
    /\ Len(tasks[1].chunkLog) = 2
    /\ tasks[1].pauses = 1

\* a risk assessment that has returned
Scored(t) == tasks[t].op \in {"popupScore", "injectorScore"} /\ At(t, "done")

\* C30: for every playlist the score of the risk assessment is an integer
\* from 0 to 100, and the level is high exactly when the score is 50 or
\* more, medium exactly when it is 25 or more and below 50, low exactly when
\* it is below 25.
C30_ScoreAndLevel ==
    \A t \in TaskIds :
        Scored(t) =>
            LET score == tasks[t].botData.score
                level == tasks[t].botData.level
            IN /\ score \in 0 .. 100
               /\ level \in {"high", "medium", "low"}
               /\ level = "high" <=> score >= 50
               /\ level = "medium" <=> (score >= 25 /\ score < 50)
               /\ level = "low" <=> score < 25

\* a playlist with a low follower ratio, a generic name, no description and
\* a round follower count scores exactly 50 and is rated high
C30_Witness ==
    /\ Scored(1)
    /\ tasks[1].playlist.followers = 51000
    /\ tasks[1].playlist.tracks = 6000
    /\ tasks[1].botData.score = 50
    /\ tasks[1].botData.level = "high"

\* the labels and the points of the rules a playlist triggers, in the order
\* of the rules: low ratio or high ratio, description, round count, generic
\* name
TriggeredRules(pl) ==
    (IF pl.tracks > 0 /\ pl.followers < 10 * pl.tracks
     THEN <<[label |-> "Low follower ratio", points |-> 15]>> ELSE <<>>)
    \o (IF pl.tracks > 0 /\ pl.followers > 10000 * pl.tracks
        THEN <<[label |-> "Suspiciously high ratio", points |-> 25]>> ELSE <<>>)
    \o (IF pl.description < 10
        THEN <<[label |-> "No description", points |-> 10]>> ELSE <<>>)
    \o (IF pl.followers > 1000 /\ pl.followers % 1000 = 0
        THEN <<[label |-> "Round follower count", points |-> 15]>> ELSE <<>>)
    \o (IF hasGenericName(pl.name) /\ pl.followers > 50000
        THEN <<[label |-> "Generic name pattern", points |-> 10]>> ELSE <<>>)

\* C31: for every playlist the score is the smaller of 100 and the sum of
\* the points of the rules it triggers, and the factor list holds one factor
\* for each triggered rule, in the order of the rules, or the one neutral
\* factor when no rule is triggered.
C31_ScoreIsSumOfRules ==
    \A t \in TaskIds :
        Scored(t) =>
            LET rules == TriggeredRules(tasks[t].playlist)
                data == tasks[t].botData
            IN /\ data.score = Min(100, scoreOf(rules))
               /\ IF rules = <<>>
                  THEN data.factors \in {<<"No red flags">>,
                                         <<"No red flags detected">>}
                  ELSE data.factors = [k \in 1 .. Len(rules) |-> rules[k].label]

\* two assessments of one snapshot by one implementation are the same
SameAssessment ==
    (Scored(1) /\ Scored(2) /\ tasks[1].op = tasks[2].op
       /\ tasks[1].playlist = tasks[2].playlist)
    => tasks[1].botData = tasks[2].botData

\* C32: the scoring function is deterministic and free of side effects: a
\* call changes nothing that is stored, and two calls on one playlist
\* snapshot, at any two times and in any two states of the store, return the
\* same assessment.
C32_ScoringIsPure ==
    [][/\ \A t \in TaskIds :
             (tasks[t].op = "idle"
                /\ tasks'[t].op \in {"popupScore", "injectorScore"})
             => store' = store
       /\ SameAssessment']_vars

\* a playlist with more than 10000 followers assessed at time 0 and again on
\* the next day, after the daily reset wrote the store
C32_Witness ==
    /\ Scored(1) /\ Scored(2)
    /\ tasks[1].playlist = tasks[2].playlist
    /\ tasks[1].playlist.followers = 11000
    /\ tasks[1].began = 0
    /\ tasks[2].began = DayLen
    /\ store.usageDate = toDateString(DayLen)
    /\ tasks[1].botData = tasks[2].botData

\* today's interactive usage count as the store has it
UsageToday ==
    IF store.usageDate = toDateString(now) THEN store.dailyUsage ELSE 0

\* C33: a single check that does not succeed leaves the quota as it was: a
\* text that matches no pattern sends no fetch, and after any check today's
\* interactive count is the number of playlists fetched today for a free
\* user, so a check that was invalid, refused or failed added nothing.
C33_FailedCheckKeepsQuota ==
    /\ \A t \in TaskIds :
          (tasks[t].op = "check" /\ tasks[t].outcome = "invalid")
          => tasks[t].fetches = 0
    /\ (\A t \in TaskIds : tasks[t].op = "idle" \/ At(t, "done"))
          => UsageToday = checksToday

\* a free user's check fails at the fetch after two checks that succeeded
\* today: the count is still 2
C33_Witness ==
    /\ tasks[1].op = "check"
    /\ At(1, "done")
    /\ tasks[1].outcome = "failed"
    /\ tasks[1].fetches = 1
    /\ tasks[1].tier = "free"
    /\ checksToday = 2
    /\ UsageToday = 2

\* C34: the periodic refresh removes no tracked playlist: when
\* handleSyncTracked has returned, whatever the fetches answered, the stored
\* collection has the identifiers it had when the refresh read it, in the
\* same order.
C34_RefreshKeepsPlaylists ==
    \A t \in TaskIds :
        (tasks[t].op = "refresh" /\ At(t, "done"))
        => IdsOf(store.trackedPlaylists) = tasks[t].had

\* C35: once signOut has completed, and while no payment-success event has
\* arrived, the stored tier is free and no email, subscription id or expiry
\* is stored, also when a verification that began before the sign-out gets
\* its answer after it.
C35_SignedOutStaysFree ==
    (tasks[1].op = "signOut" /\ At(1, "done"))
    => /\ store.userTier = "free"
       /\ store.userEmail = ""
       /\ store.subscriptionId = ""
       /\ store.tierExpiry = 0

\* C36: every call of validateBatch returns in the end, for every list and
\* every concurrency, 0 included, when every fetch is answered in the end.
C36_BatchReturns ==
    (tasks[1].op = "validateBatch") ~> BatchDone(1)

\* C37: canPerform returns an answer {allowed, remaining} and never fails,
\* for every action and every tier the store can hold, a tier string adopted
\* from a verification response included; for an action other than check,
\* bulk and api the answer is not allowed with 0 remaining.
C37_CanPerformAnswers ==
    \A t \in TaskIds :
        (tasks[t].op = "canPerform" /\ At(t, "done")) =>
            /\ tasks[t].outcome # "threw"
            /\ tasks[t].action = "export"
                 => ~tasks[t].allowed /\ tasks[t].remaining = 0

\* C38: the scoring of the popup and the scoring of the content script are
\* equivalent: for every playlist they return the same score, the same level
\* and the same factors in the same order.
C38_ScoringsAgree ==
    (/\ Scored(1) /\ tasks[1].op = "popupScore"
     /\ Scored(2) /\ tasks[2].op = "injectorScore"
     /\ tasks[1].playlist = tasks[2].playlist)
    => /\ tasks[1].botData.score = tasks[2].botData.score
       /\ tasks[1].botData.level = tasks[2].botData.level
       /\ tasks[1].botData.factors = tasks[2].botData.factors

\* C39: the scheduled re-verification of the service worker applies the same
\* transitions as Premium.verifySubscription: from every entitlement, with
\* every stored email and subscription id and for every answer of the
\* endpoint, a completed run of either leaves the stored tier and the stored
\* expiry that Premium.verifySubscription leaves.
C39_SameVerifyTransitions ==
    \A t \in TaskIds :
        (tasks[t].op \in {"verify", "swVerify"} /\ At(t, "done")) =>
            LET after == verifySubscription_effect(tasks[t].before, tasks[t].data)
            IN /\ store.userTier = after.tier
               /\ store.tierExpiry = after.expiry

\* C40: the bounds of the collection and of the histories survive replacement
\* from outside: after a cloud sync or an import has replaced the collection,
\* the stored collection holds at most 50 entries, no identifier twice and no
\* history longer than 30 captures.
C40_BoundsSurviveReplacement ==
    LET tracked == store.trackedPlaylists
    IN (\E t \in TaskIds : /\ At(t, "done")
                           /\ \/ tasks[t].op = "import"
                              \/ tasks[t].op = "sync" /\ tasks[t].outcome = "replace")
       => /\ Len(tracked) <= 50
          /\ \A i, j \in 1 .. Len(tracked) : tracked[i].id = tracked[j].id => i = j
          /\ \A i \in 1 .. Len(tracked) : Len(tracked[i].history) <= 30

=============================================================================
